---- MODULE Spec2Model ----
(***************************************************************************)
(* The Profile-to-Strategy Labeler of the investment recommender:          *)
(* transform_finaccess_data (src/scripts/investment_labeling_pipeline.py). *)
(*                                                                         *)
(* pandas and scikit-learn compute in binary floating point; the model     *)
(* computes the same quantities exactly over the integers (sums, sums of   *)
(* squares, cross products) and keeps, for similarities that are equal as  *)
(* real numbers, the sign of the rounding residue a build may leave.  The  *)
(* integers that occur exceed 32 bits, so they are kept as signed          *)
(* sequences of base-1000 limbs.                                           *)
(***************************************************************************)
EXTENDS Integers, Sequences, FiniteSets, TLC

----------------------------------------------------------------------------
(* Exact integer arithmetic: [s |-> sign, m |-> limbs, least significant   *)
(* first, no leading zero limb].                                           *)

Base == 10 * 10 * 10

Max(a, b) == IF a >= b THEN a ELSE b

Min(a, b) == IF a <= b THEN a ELSE b

Limb(a, i) == IF i <= Len(a) THEN a[i] ELSE 0

RECURSIVE Strip(_)
Strip(a) == IF a = <<>> \/ a[Len(a)] # 0 THEN a ELSE Strip(SubSeq(a, 1, Len(a) - 1))

RECURSIVE MagOf(_)
MagOf(n) == IF n = 0 THEN <<>> ELSE <<n % Base>> \o MagOf(n \div Base)

\* Propagates the carries of a limb sequence whose value is not negative.
RECURSIVE CarryFrom(_, _, _)
CarryFrom(a, i, c) ==
    IF i > Len(a) THEN MagOf(c)
    ELSE <<(a[i] + c) % Base>> \o CarryFrom(a, i + 1, (a[i] + c) \div Base)

Carry(a) == Strip(CarryFrom(a, 1, 0))

MagAdd(a, b) == Carry([i \in 1..Max(Len(a), Len(b)) |-> Limb(a, i) + Limb(b, i)])

\* a - b for a >= b.
MagSub(a, b) == Carry([i \in 1..Len(a) |-> a[i] - Limb(b, i)])

RECURSIVE SumProd(_, _, _, _, _)
SumProd(a, b, k, i, hi) ==
    IF i > hi THEN 0 ELSE a[i] * b[k + 1 - i] + SumProd(a, b, k, i + 1, hi)

MagMul(a, b) ==
    IF a = <<>> \/ b = <<>> THEN <<>>
    ELSE Carry([k \in 1..(Len(a) + Len(b) - 1) |->
                  SumProd(a, b, k, Max(1, k + 1 - Len(b)), Min(k, Len(a)))])

RECURSIVE MagCmpFrom(_, _, _)
MagCmpFrom(a, b, i) ==
    IF i = 0 THEN 0
    ELSE IF a[i] > b[i] THEN 1
    ELSE IF a[i] < b[i] THEN -1
    ELSE MagCmpFrom(a, b, i - 1)

\* -1, 0 or 1 as a < b, a = b, a > b.
MagCmp(a, b) ==
    IF Len(a) > Len(b) THEN 1
    ELSE IF Len(a) < Len(b) THEN -1
    ELSE MagCmpFrom(a, b, Len(a))

Zero == [s |-> 0, m |-> <<>>]

Z(n) == IF n = 0 THEN Zero
        ELSE IF n > 0 THEN [s |-> 1, m |-> MagOf(n)]
        ELSE [s |-> -1, m |-> MagOf(-n)]

ZNeg(x) == [s |-> -x.s, m |-> x.m]

ZAdd(x, y) ==
    IF x.s = 0 THEN y
    ELSE IF y.s = 0 THEN x
    ELSE IF x.s = y.s THEN [s |-> x.s, m |-> MagAdd(x.m, y.m)]
    ELSE LET c == MagCmp(x.m, y.m)
         IN  IF c = 0 THEN Zero
             ELSE IF c > 0 THEN [s |-> x.s, m |-> MagSub(x.m, y.m)]
             ELSE [s |-> y.s, m |-> MagSub(y.m, x.m)]

ZSub(x, y) == ZAdd(x, ZNeg(y))

ZMul(x, y) ==
    IF x.s = 0 \/ y.s = 0 THEN Zero
    ELSE [s |-> x.s * y.s, m |-> MagMul(x.m, y.m)]

\* -1, 0 or 1 as x < y, x = y, x > y.
ZCmp(x, y) ==
    IF x.s # y.s THEN (IF x.s > y.s THEN 1 ELSE -1)
    ELSE IF x.s = 0 THEN 0
    ELSE x.s * MagCmp(x.m, y.m)

RECURSIVE ZSum(_, _, _)
\* f[lo] + ... + f[hi]
ZSum(f, lo, hi) == IF lo > hi THEN Zero ELSE ZAdd(f[lo], ZSum(f, lo + 1, hi))

----------------------------------------------------------------------------
(* Data.  A missing cell (pandas NaN) is the empty sequence and a number x  *)
(* is <<x>>.  Numbers of a frame are held in tenths, so that the archetype  *)
(* entries 0.3, 0.5 and 0.6 and the median of two whole numbers are         *)
(* integers: Num(2) is 2 and Dec(3) is 0.3.  A missing categorical cell is  *)
(* the text "NaN", which read_excel reads as missing.                       *)

Unit == 10

NaN == <<>>

Num(x) == <<Unit * x>>

Dec(tenths) == <<tenths>>

IsNaN(cell) == cell = NaN

Range(s) == {s[i] : i \in DOMAIN s}

relevant_cols ==
    <<"A08", "A13", "B3Ii", "U23",
      "C1_1a", "C1_2", "C1_4", "C1_6", "C1_9",
      "C1_15", "C1_17", "C1_19", "C1_25", "C1_35">>

columns ==
    <<"area_type", "gender", "monthly_income", "monthly_expenditure",
      "save_bank", "save_mobile_money", "save_sacco", "save_friends", "save_digital",
      "loan_mobile", "loan_sacco", "loan_digital", "loan_family", "invest_forex">>

behavior_cols ==
    <<"save_bank", "save_mobile_money", "save_sacco", "save_friends", "save_digital",
      "loan_mobile", "loan_sacco", "loan_digital", "loan_family", "invest_forex">>

NumCols == Len(columns)

Cols == Range(columns)

archetypes == <<"conservative", "balanced", "aggressive">>

\* A frame: its column names in order and its rows, each a function of the names.
Frame(cols, data) == [columns |-> cols, data |-> data]

NoFrame == Frame(<<>>, <<>>)

IndexOf(s, x) == CHOOSE i \in DOMAIN s : s[i] = x

----------------------------------------------------------------------------
(* Steps 2 and 3: column selection and renaming.                            *)

\* A check of the categorical columns only.
MissingCategoricalCols(df) ==
    {c \in Range(relevant_cols) \ {"B3Ii", "U23"} : c \notin Range(df.columns)}

\* The expected source columns the sheet does not have: df[relevant_cols]
\* raises KeyError when there is one.
MissingCols(df) == {c \in Range(relevant_cols) : c \notin Range(df.columns)}

\* The selection with the rows in reverse order.
SelectColsReversed(df) ==
    Frame(relevant_cols,
          [i \in 1..Len(df.data) |->
              [c \in Range(relevant_cols) |->
                  IF c \in DOMAIN df.data[Len(df.data) + 1 - i]
                  THEN df.data[Len(df.data) + 1 - i][c] ELSE NaN]])

\* df[relevant_cols].copy(): the fourteen columns in the order of relevant_cols,
\* every row kept, in order.  It is taken only of a sheet that has them all
\* (Select raises KeyError otherwise); a column the sheet lacks would be empty.
SelectCols(df) ==
    Frame(relevant_cols,
          [i \in 1..Len(df.data) |->
              [c \in Range(relevant_cols) |->
                  IF c \in DOMAIN df.data[i] THEN df.data[i][c] ELSE NaN]])

\* df_subset.columns = [...]: the j-th column takes the j-th name.
Rename(fr, names) ==
    Frame(names,
          [i \in 1..Len(fr.data) |->
              [c \in Range(names) |-> fr.data[i][fr.columns[IndexOf(names, c)]]]])

----------------------------------------------------------------------------
(* Steps 4 and 5: encoding.                                                 *)

\* usage_map[x] without the default: an unknown answer maps to NaN.
usage_map_strict(x) ==
    CASE x = "Never used" -> Num(0)
      [] x = "Used to use" -> Num(1)
      [] x = "Currently use" -> Num(2)
      [] OTHER -> NaN

\* The default taken for 1 instead of 0.
usage_map_default1(x) ==
    CASE x = "Never used" -> Num(0)
      [] x = "Used to use" -> Num(1)
      [] x = "Currently use" -> Num(2)
      [] OTHER -> Num(1)

\* usage_map.get(x, 0)
usage_map(x) ==
    CASE x = "Never used" -> Num(0)
      [] x = "Used to use" -> Num(1)
      [] x = "Currently use" -> Num(2)
      [] OTHER -> Num(0)

\* An unknown gender defaulted to 0.
gender_map_default0(x) ==
    CASE x = "Male" -> Num(0)
      [] x = "Female" -> Num(1)
      [] OTHER -> Num(0)

\* Series.map({'Male': 0, 'Female': 1}): a value that is no key maps to NaN.
gender_map(x) ==
    CASE x = "Male" -> Num(0)
      [] x = "Female" -> Num(1)
      [] OTHER -> NaN

\* Series.map({'Rural': 0, 'Urban': 1})
area_map(x) ==
    CASE x = "Rural" -> Num(0)
      [] x = "Urban" -> Num(1)
      [] OTHER -> NaN

\* The frame with op applied to every cell of the columns in cs.
MapCols(fr, cs, op(_)) ==
    Frame(fr.columns,
          [i \in 1..Len(fr.data) |->
              [c \in DOMAIN fr.data[i] |->
                  IF c \in cs THEN op(fr.data[i][c]) ELSE fr.data[i][c]]])

MapUsage(fr) == MapCols(fr, Range(behavior_cols), usage_map)

EncodeDemographics(fr) ==
    MapCols(MapCols(fr, {"gender"}, gender_map), {"area_type"}, area_map)

----------------------------------------------------------------------------
(* Step 6: imputation.                                                      *)

\* The values of column c that are not missing, in row order.
RECURSIVE PresentFrom(_, _, _)
PresentFrom(data, c, i) ==
    IF i > Len(data) THEN <<>>
    ELSE (IF IsNaN(data[i][c]) THEN <<>> ELSE <<data[i][c][1]>>) \o PresentFrom(data, c, i + 1)

Present(data, c) == PresentFrom(data, c, 1)

\* Series.median(): missing values are skipped; the middle value, or the mean
\* of the two middle values; NaN when nothing is left.
median(data, c) ==
    LET v == SortSeq(Present(data, c), LAMBDA a, b : a < b)
        n == Len(v)
    IN  IF n = 0 THEN NaN
        ELSE IF n % 2 = 1 THEN <<v[(n + 1) \div 2]>>
        ELSE <<(v[n \div 2] + v[n \div 2 + 1]) \div 2>>

\* fr[c] = fr[c].fillna(value)
fillna(fr, c, value) ==
    Frame(fr.columns,
          [i \in 1..Len(fr.data) |->
              [fr.data[i] EXCEPT ![c] = IF IsNaN(@) THEN value ELSE @]])

FillNaNs(fr) ==
    LET inc == fillna(fr, "monthly_income", median(fr.data, "monthly_income"))
    IN  fillna(inc, "monthly_expenditure", median(inc.data, "monthly_expenditure"))

----------------------------------------------------------------------------
(* Step 7: StandardScaler.  A scaler holds, per column, the number n of     *)
(* values seen that are not missing, their sum and the sum of their         *)
(* squares, so that mean_ = sum / n and var_ = (n * sq - sum^2) / n^2 (the  *)
(* population variance).  Sums are in tenths, squares in hundredths.        *)

\* StandardScaler(): nothing seen yet.
UnfittedScaler == [c \in Cols |-> [n |-> 0, sum |-> Zero, sq |-> Zero]]

RECURSIVE SumOf(_, _)
SumOf(v, i) == IF i > Len(v) THEN Zero ELSE ZAdd(Z(v[i]), SumOf(v, i + 1))

RECURSIVE SumSqOf(_, _)
SumSqOf(v, i) == IF i > Len(v) THEN Zero ELSE ZAdd(ZMul(Z(v[i]), Z(v[i])), SumSqOf(v, i + 1))

\* scaler.fit(X) on the scaler sc: the statistics of X's columns, missing
\* values left out, added to what sc has seen (nothing, for a new scaler).
Fit(sc, data) ==
    [c \in Cols |->
        LET v == Present(data, c)
        IN  [n |-> sc[c].n + Len(v),
             sum |-> ZAdd(sc[c].sum, SumOf(v, 1)),
             sq |-> ZAdd(sc[c].sq, SumSqOf(v, 1))]]

\* n^2 * var_ of a column.
VarNum(st) == ZSub(ZMul(Z(st.n), st.sq), ZMul(st.sum, st.sum))

\* (n * Unit * scale_)^2 of a column: scale_ is sqrt(var_), and 1 where the
\* variance is zero (scikit-learn's _handle_zeros_in_scale), so that a
\* constant column is never divided by zero.
ScaleSq(st) ==
    IF VarNum(st).s > 0 THEN VarNum(st)
    ELSE ZMul(Z(Unit * st.n), Z(Unit * st.n))

\* One scaled cell: (x - mean_) / scale_ = a / sqrt(d), held as the pair of
\* a = n * x - sum and d = ScaleSq; NaN for a missing x or a column never seen.
ScaleCell(st, x) ==
    IF IsNaN(x) \/ st.n = 0 THEN NaN
    ELSE <<[a |-> ZSub(Z(st.n * x[1]), st.sum), d |-> ScaleSq(st)]>>

\* scaler.transform(X)
Transform(sc, data) ==
    [i \in 1..Len(data) |-> [c \in Cols |-> ScaleCell(sc[c], data[i][c])]]

----------------------------------------------------------------------------
(* Step 8: the three archetype vectors.                                     *)

investment_rows ==
    <<  <<Num(1), Num(1), Dec(3), Dec(3), Num(2), Num(1), Num(2), Num(1),
          Num(0), Num(0), Num(0), Num(0), Num(0), Num(0)>>,
        <<Num(1), Num(1), Dec(5), Dec(5), Num(1), Num(1), Num(1), Num(1),
          Num(1), Num(1), Num(1), Num(1), Num(1), Num(0)>>,
        <<Num(1), Num(1), Dec(6), Dec(6), Num(0), Num(2), Num(0), Num(0),
          Num(2), Num(2), Num(2), Num(2), Num(2), Num(2)>>  >>

\* pd.DataFrame(rows, columns=df_subset.columns, index=archetypes)
InvestmentProfiles ==
    [columns |-> columns,
     index |-> archetypes,
     data |-> [k \in 1..Len(archetypes) |->
                  [c \in Cols |-> investment_rows[k][IndexOf(columns, c)]]]]

NoProfiles == [columns |-> <<>>, index |-> <<>>, data |-> <<>>]

\* The scaler refit on the archetypes themselves.
FitTransformProfiles(sc, profiles) ==
    Transform(Fit(UnfittedScaler, profiles.data), profiles.data)

\* scaler.transform(investment_profiles)
TransformProfiles(sc, profiles) == Transform(sc, profiles.data)

----------------------------------------------------------------------------
(* Step 9: cosine similarity and the label.  For scaled rows u and v with   *)
(* cells a_u / sqrt(d) and a_v / sqrt(d), L the product of the distinct d   *)
(* and w[j] = L / d[j],                                                     *)
(*    u.v = p / L,  |u|^2 = h / L,  |v|^2 = q / L                           *)
(* with p = sum a_u a_v w, h = sum a_u^2 w, q = sum a_v^2 w, so that the    *)
(* similarity is p / sqrt(h q); it is 0 when a norm is 0 (scikit-learn's    *)
(* normalize divides a zero row by 1).  The code computes in float64: what  *)
(* it gets is the exact similarity but for a rounding residue, which        *)
(* depends on the build (fused multiply-add or not, the order of the sums)  *)
(* and which decides between similarities that are equal exactly.  A        *)
(* similarity is held as [p, h, q, e] with e the sign of its residue.       *)

HasNaN(rows) == \E i \in DOMAIN rows : \E c \in Cols : IsNaN(rows[i][c])

\* The sequence f[1], ..., f[n].
RECURSIVE Tuple(_, _, _)
Tuple(f, i, n) == IF i > n THEN <<>> ELSE <<f[i]>> \o Tuple(f, i + 1, n)

RECURSIVE ZProdSet(_)
ZProdSet(S) ==
    IF S = {} THEN Z(1)
    ELSE LET x == CHOOSE y \in S : TRUE IN ZMul(x, ZProdSet(S \ {x}))

\* w[j]: the product of the distinct d but the one of column j.
Weights(v) ==
    LET ds == {v[c][1].d : c \in Cols}
    IN  Tuple([j \in 1..NumCols |-> ZProdSet(ds \ {v[columns[j]][1].d})], 1, NumCols)

\* sum over the columns of a_u * a_v * w
Dot(u, v, w) ==
    ZSum([j \in 1..NumCols |->
             ZMul(ZMul(u[columns[j]][1].a, v[columns[j]][1].a), w[j])],
         1, NumCols)

\* The similarities of the rows of X to the rows of Y in exact arithmetic:
\* one similarity, with no residue, per row of X and of Y.
ExactSimilarity(X, Y) ==
    LET w == Weights(Y[1])
        q == Tuple([k \in 1..Len(Y) |-> Dot(Y[k], Y[k], w)], 1, Len(Y))
        h == Tuple([i \in 1..Len(X) |-> Dot(X[i], X[i], w)], 1, Len(X))
    IN  Tuple([i \in 1..Len(X) |->
                  Tuple([k \in 1..Len(Y) |->
                            [p |-> Dot(X[i], Y[k], w), h |-> h[i], q |-> q[k], e |-> 0]],
                        1, Len(Y))],
              1, Len(X))

\* The sign of a similarity.
SimSign(s) == IF s.h.s = 0 \/ s.q.s = 0 THEN 0 ELSE s.p.s

\* -1, 0 or 1 as the similarity s is below, equal to or above t, the
\* residues left out.
ExactCmp(s, t) ==
    IF SimSign(s) # SimSign(t) THEN (IF SimSign(s) > SimSign(t) THEN 1 ELSE -1)
    ELSE IF SimSign(s) = 0 THEN 0
    ELSE LET l == ZMul(ZMul(s.p, s.p), IF s.h = t.h THEN t.q ELSE ZMul(t.h, t.q))
             r == ZMul(ZMul(t.p, t.p), IF s.h = t.h THEN s.q ELSE ZMul(s.h, s.q))
         IN  SimSign(s) * ZCmp(l, r)

\* -1, 0 or 1 as the float64 similarity s is below, equal to or above t.
SimCmp(s, t) ==
    IF ExactCmp(s, t) # 0 THEN ExactCmp(s, t)
    ELSE IF s.e = t.e THEN 0
    ELSE IF s.e > t.e THEN 1 ELSE -1

\* The entries of a row of exact similarities that no other entry exceeds.
TiedMax(row) == {k \in DOMAIN row : \A j \in DOMAIN row : ExactCmp(row[j], row[k]) <= 0}

\* The entries that are 0 in float64 as they are exactly: a sum of zeros
\* (a household row or an archetype row scaled to zeros) leaves no residue.
NoResidue(row) == {k \in DOMAIN row : row[k].h.s = 0 \/ row[k].q.s = 0}

\* What float64 may give for a row of exact similarities: the row itself,
\* or, where several entries are the largest exactly and have a residue, any
\* one of them above the others, or all of them below those that have none.
Residues(row) ==
    LET tied == TiedMax(row)
        open == tied \ NoResidue(row)
    IN  IF Cardinality(tied) < 2 THEN {row}
        ELSE {row}
             \cup {[row EXCEPT ![w].e = 1] : w \in open}
             \cup (IF open # {} /\ tied \ open # {}
                   THEN {[k \in DOMAIN row |->
                             IF k \in open THEN [row[k] EXCEPT !.e = -1] ELSE row[k]]}
                   ELSE {})

\* The matrices whose i-th row is one of Residues(exact[i]).
RECURSIVE Rounded(_, _)
Rounded(exact, i) ==
    IF i > Len(exact) THEN {<<>>}
    ELSE {<<row>> \o rest : row \in Residues(exact[i]), rest \in Rounded(exact, i + 1)}

\* cosine_similarity(X, Y) on a build that has computed the products in
\* done: what it gave before for the same X and Y, and else any rounding of
\* the exact similarities.
cosine_similarity(X, Y, done) ==
    IF \E r \in done : r.X = X /\ r.Y = Y
    THEN {r.sim : r \in {r \in done : r.X = X /\ r.Y = Y}}
    ELSE Rounded(ExactSimilarity(X, Y), 1)

\* The position of the largest entry of row, the first one among equals.
RECURSIVE FirstMax(_, _, _)
FirstMax(row, k, best) ==
    IF k > Len(row) THEN best
    ELSE FirstMax(row, k + 1, IF SimCmp(row[k], row[best]) > 0 THEN k ELSE best)

\* The position of the largest entry of row, the last one among equals.
RECURSIVE LastMax(_, _, _)
LastMax(row, k, best) ==
    IF k > Len(row) THEN best
    ELSE LastMax(row, k + 1, IF SimCmp(row[k], row[best]) >= 0 THEN k ELSE best)

\* The position of the smallest entry of row, the first one among equals.
RECURSIVE FirstMin(_, _, _)
FirstMin(row, k, best) ==
    IF k > Len(row) THEN best
    ELSE FirstMin(row, k + 1, IF SimCmp(row[k], row[best]) < 0 THEN k ELSE best)

\* row.nlargest(1, keep='last').index[0]
nlargest1_keep_last(row, index) == index[LastMax(row, 2, 1)]

\* row.nsmallest(1).index[0]
nsmallest1(row, index) == index[FirstMin(row, 2, 1)]

\* The label looked up among the frame's columns instead of the archetypes.
nlargest1_of_columns(row, index) == columns[FirstMax(row, 2, 1)]

\* row.nlargest(1).index[0]
nlargest1(row, index) == index[FirstMax(row, 2, 1)]

\* df_subset["investment_label"] = recommendations.apply(...)
WithLabels(fr, sim, index) ==
    Frame(Append(fr.columns, "investment_label"),
          [i \in 1..Len(fr.data) |->
              [c \in DOMAIN fr.data[i] \cup {"investment_label"} |->
                  IF c = "investment_label" THEN nlargest1(sim[i], index)
                  ELSE fr.data[i][c]]])

----------------------------------------------------------------------------
(* The spreadsheets the labeler is given.                                   *)

MaxRows == 3

SeqLen == 3

N == "Never used"

U == "Used to use"

C == "Currently use"

\* One survey row: area type, gender, income, expenditure and the ten usage
\* answers, under the source column codes.
RawRow(area, gender, income, expenditure, usage) ==
    [c \in Range(relevant_cols) |->
        CASE c = "A08" -> area
          [] c = "A13" -> gender
          [] c = "B3Ii" -> income
          [] c = "U23" -> expenditure
          [] OTHER -> usage[IndexOf(relevant_cols, c) - 4]]

\* Rows 1 to 5 are in the vocabulary (row 4 but for two usage answers, and it
\* has no income); row 6 has an unknown gender, row 7 no area type.
SurveyRows ==
    <<  RawRow("Urban", "Female", Num(4), Num(3), <<U, N, N, N, N, N, N, N, N, N>>),
        RawRow("Urban", "Female", Num(4), Num(3), <<N, N, N, U, N, N, N, N, N, N>>),
        RawRow("Rural", "Male", Num(9), Num(3), <<C, C, C, C, C, C, C, C, C, C>>),
        RawRow("Rural", "Female", NaN, Num(2), <<C, U, C, "Sometimes", "NaN", N, N, N, N, N>>),
        RawRow("Urban", "Male", Num(6), Num(6), <<U, U, U, U, U, U, U, U, U, N>>),
        RawRow("Rural", "female", Num(5), Num(5), <<U, C, N, N, C, N, N, N, N, C>>),
        RawRow("NaN", "Male", Num(6), Num(2), <<N, C, N, N, C, C, C, C, C, C>>)  >>

\* The sheet with the given columns and the given rows of SurveyRows; a
\* column that is no survey column holds the row's number.
Sheet(cols, picks) ==
    Frame(cols,
          [i \in 1..Len(picks) |->
              [c \in Range(cols) |->
                  IF c \in Range(relevant_cols) THEN SurveyRows[picks[i]][c] ELSE Num(i)]])

Without(c) == SelectSeq(relevant_cols, LAMBDA x : x # c)

Picks(maxlen, rows) == UNION {[1..n -> rows] : n \in 0..maxlen}

\* Every sheet of at most MaxRows rows with the expected columns, and the
\* sheets of at most one row with one expected column absent or with one
\* more column.
Sheets ==
    {Sheet(relevant_cols, b) : b \in Picks(MaxRows, DOMAIN SurveyRows)}
    \cup {Sheet(Without(c), b) : c \in Range(relevant_cols), b \in Picks(1, DOMAIN SurveyRows)}
    \cup {Sheet(<<"HHID">> \o relevant_cols, b) : b \in Picks(1, DOMAIN SurveyRows)}

\* The sheets of the runs of several calls.
SeqSheets ==
    {Sheet(relevant_cols, <<1, 2>>), Sheet(relevant_cols, <<3, 4, 5>>),
     Sheet(relevant_cols, <<4>>), Sheet(relevant_cols, <<4, 1>>),
     Sheet(Without("U23"), <<3>>)}

\* The households of the worked examples: the high earner who currently uses
\* every product, the urban woman who never used any, and three households
\* that answer as the balanced, the aggressive and the conservative
\* archetype do.
ExampleRows ==
    <<  RawRow("Rural", "Male", Num(90000), Num(30000), <<C, C, C, C, C, C, C, C, C, C>>),
        RawRow("Urban", "Female", Num(40000), Num(35000), <<N, N, N, N, N, N, N, N, N, N>>),
        RawRow("Rural", "Female", Num(20000), Num(15000), <<U, U, U, U, U, U, U, U, U, N>>),
        RawRow("Urban", "Male", Num(60000), Num(60000), <<N, C, N, N, C, C, C, C, C, C>>),
        RawRow("Urban", "Female", Num(10000), Num(8000), <<C, U, C, U, N, N, N, N, N, N>>)  >>

MaxBatch == 2

\* The sheet of the expected columns with the given rows.
SheetOf(rows) == Frame(relevant_cols, rows)

\* The batches of one to MaxBatch example households.
ExampleBatches ==
    {[i \in DOMAIN b |-> ExampleRows[b[i]]] : b \in Picks(MaxBatch, DOMAIN ExampleRows) \ {<<>>}}

\* The household with a monthly income higher by 30000.
RaisedIncome(row) == [row EXCEPT !["B3Ii"] = <<@[1] + 30000 * Unit>>]

\* The household one usage level higher in invest_forex.
RaisedForex(row) == [row EXCEPT !["C1_35"] = IF @ = N THEN U ELSE C]

\* The batches that differ from batch b in its first household only, raised
\* in its income or in its invest_forex usage.
Raised(b) ==
    {[b EXCEPT ![1] = RaisedIncome(@)]}
    \cup (IF b[1]["C1_35"] = C THEN {} ELSE {[b EXCEPT ![1] = RaisedForex(@)]})

----------------------------------------------------------------------------
(* The recommendation system (InvestmentRecommendationSystem).  A Python    *)
(* value is a record with its type t and its value: v for a text, n for a   *)
(* whole number, x for a float, items for a list, entries (a function of    *)
(* the keys) for a dict.  Floats, all between 0 and 1 (scores and           *)
(* probabilities), are held in ten-thousandths.                             *)

None == [t |-> "NoneType"]

Str(s) == [t |-> "str", v |-> s]

Number(n) == [t |-> "int", n |-> n]

\* The float of x ten-thousandths.
Float(x) == [t |-> "float", x |-> x]

\* A list: unhashable, so that it is no key of a dict.
List(s) == [t |-> "list", items |-> s]

Dict(f) == [t |-> "dict", entries |-> f]

IsNone(x) == x.t = "NoneType"

IsNumber(x) == x.t = "int"

IsStr(x) == x.t = "str"

\* bool(x) for the values above
Truthy(x) ==
    CASE x.t = "NoneType" -> FALSE
      [] x.t = "str" -> IF "v" \in DOMAIN x THEN x.v # "" ELSE x.parts # <<>>
      [] x.t = "int" -> x.n # 0
      [] x.t = "float" -> x.x # 0
      [] x.t = "list" -> x.items # <<>>
      [] OTHER -> DOMAIN x.entries # {}

\* d.get(key, default) of a dict d
Get(d, key, default) == IF key \in DOMAIN d.entries THEN d.entries[key] ELSE default

\* What a method call ends with: a returned value or an exception.
Return(value) == [raised |-> "", value |-> value]

Raises(e) == [raised |-> e, value |-> None]

\* One entry of _define_investment_products: risk level, expected return,
\* liquidity, and the numbers of pros and of cons listed (every description
\* is shorter than 200 characters).
Product(risk, return, liquidity, pros, cons) ==
    [risk_level |-> risk, expected_return |-> return, liquidity |-> liquidity,
     pros |-> pros, cons |-> cons]

\* The product names, in the order of the dict.
product_names ==
    <<"Government Bonds (Treasury Bonds)", "Treasury Bills (T-Bills)",
      "Nairobi Securities Exchange (NSE) Stocks", "Unit Trusts/Mutual Funds",
      "Money Market Funds", "Real Estate Investment",
      "Real Estate Investment Trusts (REITs)", "Bank Fixed Deposits",
      "High-Yield Savings Accounts", "Commodity Trading",
      "Foreign Exchange (Forex) Trading", "Pension Schemes (Individual & Occupational)",
      "Cooperative Society Investments (SACCOs)",
      "Small Business Investment/Entrepreneurship", "Agricultural Investment",
      "Education Savings Plans">>

investment_products ==
    [name \in Range(product_names) |->
        CASE name = "Government Bonds (Treasury Bonds)" -> Product("Low", "8-12%", "Medium", 5, 4)
          [] name = "Treasury Bills (T-Bills)" -> Product("Low", "6-10%", "High", 5, 4)
          [] name = "Nairobi Securities Exchange (NSE) Stocks" -> Product("High", "12-25%", "High", 6, 5)
          [] name = "Unit Trusts/Mutual Funds" -> Product("Medium", "8-15%", "Medium", 5, 5)
          [] name = "Money Market Funds" -> Product("Low", "6-9%", "High", 5, 4)
          [] name = "Real Estate Investment" -> Product("Medium", "10-20%", "Low", 5, 6)
          [] name = "Real Estate Investment Trusts (REITs)" -> Product("Medium", "8-14%", "Medium", 5, 5)
          [] name = "Bank Fixed Deposits" -> Product("Low", "5-8%", "Low", 5, 4)
          [] name = "High-Yield Savings Accounts" -> Product("Low", "3-6%", "High", 5, 4)
          [] name = "Commodity Trading" -> Product("High", "10-30%", "Medium", 5, 5)
          [] name = "Foreign Exchange (Forex) Trading" -> Product("Very High", "-50% to +100%", "High", 5, 6)
          [] name = "Pension Schemes (Individual & Occupational)" -> Product("Low", "7-12%", "Very Low", 5, 5)
          [] name = "Cooperative Society Investments (SACCOs)" -> Product("Medium", "8-15%", "Medium", 5, 5)
          [] name = "Small Business Investment/Entrepreneurship" -> Product("High", "15-50%", "Very Low", 5, 5)
          [] name = "Agricultural Investment" -> Product("Medium", "10-25%", "Low", 5, 6)
          [] OTHER -> Product("Low", "6-10%", "Low", 5, 5)]

\* The products of one risk level, in the order of the dict.
ProductsOfLevel(level) ==
    SelectSeq(product_names, LAMBDA name : investment_products[name].risk_level = level)

\* _define_risk_categories
risk_categories ==
    [category \in {"low_risk", "medium_risk", "high_risk", "very_high_risk", "alternative"} |->
        CASE category = "low_risk" -> ProductsOfLevel("Low")
          [] category = "medium_risk" -> ProductsOfLevel("Medium")
          [] category = "high_risk" -> ProductsOfLevel("High")
          [] category = "very_high_risk" -> ProductsOfLevel("Very High")
          [] OTHER -> <<"Cooperative Society Investments (SACCOs)", "Agricultural Investment",
                        "Small Business Investment/Entrepreneurship", "Education Savings Plans">>]

\* _define_segment_recommendations
segment_recommendations ==
    [segment \in {"growth_seeker", "balanced_investor", "income_focused",
                  "opportunity_seeker", "moderate"} |->
        CASE segment = "growth_seeker" -> <<"high_risk", "medium_risk">>
          [] segment = "balanced_investor" -> <<"medium_risk", "low_risk">>
          [] segment = "income_focused" -> <<"low_risk", "alternative">>
          [] segment = "opportunity_seeker" -> <<"medium_risk", "alternative">>
          [] OTHER -> <<"medium_risk">>]

\* get_products_by_risk
get_products_by_risk(risk_level) ==
    IF risk_level \in DOMAIN risk_categories THEN risk_categories[risk_level] ELSE <<>>

\* s[:n]
Take(s, n) == SubSeq(s, 1, Min(n, Len(s)))

RECURSIVE Flatten(_)
Flatten(ss) == IF ss = <<>> THEN <<>> ELSE Head(ss) \o Flatten(Tail(ss))

\* risk_mapping.get(risk_tolerance, ['medium_risk']), of a hashable value
risk_mapping(risk_tolerance) ==
    IF ~IsStr(risk_tolerance) THEN <<"medium_risk">>
    ELSE CASE risk_tolerance.v = "Low" -> <<"low_risk">>
           [] risk_tolerance.v = "Medium" -> <<"medium_risk", "low_risk">>
           [] risk_tolerance.v = "High" -> <<"high_risk", "medium_risk">>
           [] risk_tolerance.v = "Very High" -> <<"very_high_risk", "high_risk">>
           [] OTHER -> <<"medium_risk">>

\* The entry get_recommendations_by_risk_tolerance makes of a product.
RiskEntry(name) ==
    [product |-> name,
     risk_level |-> investment_products[name].risk_level,
     expected_return |-> investment_products[name].expected_return,
     liquidity |-> investment_products[name].liquidity,
     description |-> name]

\* get_recommendations_by_risk_tolerance: the first three products of each
\* category of the risk tolerance; TypeError for a risk tolerance that cannot
\* be a dict key.
get_recommendations_by_risk_tolerance(risk_tolerance) ==
    IF risk_tolerance.t \in {"list", "dict"} THEN Raises("TypeError")
    ELSE LET cats == risk_mapping(risk_tolerance)
             names == Flatten([k \in DOMAIN cats |-> Take(get_products_by_risk(cats[k]), 3)])
         IN  Return([k \in DOMAIN names |-> RiskEntry(names[k])])

\* s.lower() and s.title() of the texts that occur.
Lower(s) ==
    CASE s = "Low" -> "low"
      [] s = "Medium" -> "medium"
      [] s = "High" -> "high"
      [] s = "Very High" -> "very high"
      [] s = "Very Low" -> "very low"
      [] s = "Rural" -> "rural"
      [] s = "Urban" -> "urban"
      [] OTHER -> s

Title(s) ==
    CASE s \in {"low", "Low"} -> "Low"
      [] s \in {"medium", "Medium"} -> "Medium"
      [] s \in {"high", "High"} -> "High"
      [] s \in {"very high", "Very High"} -> "Very High"
      [] s \in {"very low", "Very Low"} -> "Very Low"
      [] OTHER -> s

\* word in s, for the words the code looks for and the texts that occur.
In(word, s) ==
    CASE s = "Advanced investor" -> word = "Advanced"
      [] s = "Long-term (5+ years)" -> word = "Long-term"
      [] OTHER -> word = s

\* get_user_segment: any exception (user_data that is no dict, an age or an
\* income that is no number where it is compared) gives 'balanced_investor'.
get_user_segment(user_data) ==
    IF user_data.t # "dict" THEN "balanced_investor"
    ELSE LET age == Get(user_data, "age", Number(30))
             location == Get(user_data, "location", Str("Urban"))
             income == Get(user_data, "monthly_income", Number(30000))
         IN  IF ~IsNumber(age) THEN "balanced_investor"
             ELSE IF age.n < 30 /\ ~IsNumber(income) THEN "balanced_investor"
             ELSE IF age.n < 30 /\ income.n > 50000 THEN "growth_seeker"
             ELSE IF age.n >= 50 THEN "income_focused"
             ELSE IF IsStr(location) /\ Lower(location.v) = "rural" THEN "opportunity_seeker"
             ELSE IF 30 <= age.n /\ age.n < 50 THEN "balanced_investor"
             ELSE "moderate"

\* The score of get_risk_tolerance, for an age and an income that are numbers
\* and an experience that is a text.
RiskScore(age, income, experience) ==
    (IF age < 35 THEN 2 ELSE IF age < 50 THEN 1 ELSE 0)
    + (IF income > 100000 THEN 2 ELSE IF income > 50000 THEN 1 ELSE 0)
    + (IF In("Advanced", experience) THEN 2 ELSE IF In("Intermediate", experience) THEN 1 ELSE 0)

\* get_risk_tolerance: any exception gives 'Medium'.
get_risk_tolerance(user_data) ==
    IF user_data.t # "dict" THEN "Medium"
    ELSE LET age == Get(user_data, "age", Number(30))
             income == Get(user_data, "monthly_income", Number(30000))
             experience == Get(user_data, "investment_experience", Str("Beginner"))
         IN  IF ~IsNumber(age) \/ ~IsNumber(income) \/ ~IsStr(experience) THEN "Medium"
             ELSE IF RiskScore(age.n, income.n, experience.v) >= 4 THEN "High"
             ELSE IF RiskScore(age.n, income.n, experience.v) >= 2 THEN "Medium"
             ELSE "Low"

\* The allocation tables of get_portfolio_allocation, in percent.
allocations ==
    [level \in {"Low", "Medium", "High"} |->
        CASE level = "Low" ->
                <<  <<"Government Bonds", 40>>, <<"Money Market Funds", 30>>,
                    <<"Bank Fixed Deposits", 20>>, <<"High-Yield Savings", 10>>  >>
          [] level = "Medium" ->
                <<  <<"Unit Trusts/Mutual Funds", 30>>, <<"Government Bonds", 25>>,
                    <<"Real Estate Investment Trusts (REITs)", 20>>, <<"NSE Stocks", 15>>,
                    <<"Money Market Funds", 10>>  >>
          [] OTHER ->
                <<  <<"NSE Stocks", 35>>, <<"Unit Trusts/Mutual Funds", 25>>,
                    <<"Small Business Investment", 15>>,
                    <<"Real Estate Investment Trusts (REITs)", 15>>,
                    <<"Commodity Trading", 10>>  >>]

\* get_portfolio_allocation: the table is looked up under the lower-cased
\* risk tolerance; AttributeError for a risk tolerance that is no text.
get_portfolio_allocation(risk_tolerance) ==
    IF ~IsStr(risk_tolerance) THEN Raises("AttributeError")
    ELSE Return(IF Lower(risk_tolerance.v) \in DOMAIN allocations
                THEN allocations[Lower(risk_tolerance.v)] ELSE allocations["Medium"])

FallbackEntry(name, risk, return, liquidity) ==
    [product |-> name, risk_level |-> risk, expected_return |-> return, liquidity |-> liquidity]

\* The keys and lists of fallback_products.
fallback_products ==
    [level \in {"Low", "Medium", "High"} |->
        CASE level = "Low" ->
                <<FallbackEntry("Treasury Bills (T-Bills)", "Low", "6-10%", "High"),
                  FallbackEntry("Money Market Funds", "Low", "6-9%", "High"),
                  FallbackEntry("Bank Fixed Deposits", "Low", "5-8%", "Low")>>
          [] level = "Medium" ->
                <<FallbackEntry("Unit Trusts/Mutual Funds", "Medium", "8-15%", "Medium"),
                  FallbackEntry("Government Bonds (Treasury Bonds)", "Low", "8-12%", "Medium"),
                  FallbackEntry("Real Estate Investment Trusts (REITs)", "Medium", "8-14%", "Medium")>>
          [] OTHER ->
                <<FallbackEntry("Nairobi Securities Exchange (NSE) Stocks", "High", "12-25%", "High"),
                  FallbackEntry("Unit Trusts/Mutual Funds", "Medium", "8-15%", "Medium"),
                  FallbackEntry("Real Estate Investment", "Medium", "10-20%", "Low")>>]

\* _get_fallback_recommendations: fallback_products.get(risk_tolerance,
\* fallback_products['medium']).  The default is evaluated before get is
\* called, and fallback_products has no key 'medium'.
get_fallback_recommendations(risk_tolerance) ==
    IF "medium" \notin DOMAIN fallback_products THEN Raises("KeyError")
    ELSE IF risk_tolerance.t \in {"list", "dict"} THEN Raises("TypeError")
    ELSE Return(IF IsStr(risk_tolerance) /\ risk_tolerance.v \in DOMAIN fallback_products
                THEN fallback_products[risk_tolerance.v] ELSE fallback_products["medium"])

\* The position of a risk level in ['Low', 'Medium', 'High'], 0 for none.
RiskIndex(level) ==
    CASE level = "Low" -> 1
      [] level = "Medium" -> 2
      [] level = "High" -> 3
      [] OTHER -> 0

\* The score of _calculate_suitability_score before it is clipped, in
\* ten-thousandths, where no exception is raised: 0.5, plus the risk, age,
\* income and horizon factors.
SuitabilitySum(user_risk, product_risk, liquidity, age, income, horizon) ==
    5000
    + (IF user_risk = product_risk THEN 4000
       ELSE IF RiskIndex(user_risk) - RiskIndex(product_risk) \in {-1, 1} THEN 2000 ELSE 0)
    + (IF age < 35 /\ product_risk \in {"Medium", "High"} THEN 2000
       ELSE IF age >= 50 /\ product_risk = "Low" THEN 2000
       ELSE IF 35 <= age /\ age < 50 THEN 1000 ELSE 0)
    + (IF income > 100000 THEN 2000 ELSE IF income > 50000 THEN 1000 ELSE 0)
    + (IF In("Long-term", horizon) /\ liquidity \in {"Low", "Very Low"} THEN 2000
       ELSE IF In("Short-term", horizon) /\ liquidity = "High" THEN 2000 ELSE 1000)

\* _calculate_suitability_score returning the score as summed, not clipped.
calculate_suitability_score_unclipped(product_info, user_data) ==
    IF user_data.t # "dict" THEN 7500
    ELSE LET user_risk == Get(user_data, "risk_tolerance", Str("Medium"))
             product_risk == product_info.risk_level
             age == Get(user_data, "age", Number(30))
             income == Get(user_data, "monthly_income", Number(30000))
             horizon == Get(user_data, "investment_horizon", Str(""))
         IN  IF (~IsStr(user_risk) \/ user_risk.v # product_risk)
                /\ (~IsStr(user_risk) \/ RiskIndex(user_risk.v) = 0 \/ RiskIndex(product_risk) = 0)
             THEN 7500
             ELSE IF ~IsNumber(age) \/ ~IsNumber(income) \/ ~IsStr(horizon) THEN 7500
             ELSE SuitabilitySum(user_risk.v, product_risk, product_info.liquidity,
                                 age.n, income.n, horizon.v)

\* _calculate_suitability_score, in ten-thousandths: min(1.0, max(0.0, score)),
\* and 0.75 when an exception is raised: user_data that is no dict, a user or
\* product risk level that differs from the other and is not in the list, an
\* age or income that is no number, a horizon that is no text.
calculate_suitability_score(product_info, user_data) ==
    IF user_data.t # "dict" THEN 7500
    ELSE LET user_risk == Get(user_data, "risk_tolerance", Str("Medium"))
             product_risk == product_info.risk_level
             age == Get(user_data, "age", Number(30))
             income == Get(user_data, "monthly_income", Number(30000))
             horizon == Get(user_data, "investment_horizon", Str(""))
         IN  IF (~IsStr(user_risk) \/ user_risk.v # product_risk)
                /\ (~IsStr(user_risk) \/ RiskIndex(user_risk.v) = 0 \/ RiskIndex(product_risk) = 0)
             THEN 7500
             ELSE IF ~IsNumber(age) \/ ~IsNumber(income) \/ ~IsStr(horizon) THEN 7500
             ELSE Min(10000, Max(0,
                     SuitabilitySum(user_risk.v, product_risk, product_info.liquidity,
                                    age.n, income.n, horizon.v)))

\* _get_emergency_recommendations
get_emergency_recommendations(user_data) ==
    Dict([user_segment |-> "balanced_investor",
          risk_tolerance |->
              (IF user_data.t = "dict" THEN Get(user_data, "risk_tolerance", Str("Medium"))
               ELSE Str("Medium")),
          segment_recommendations |-> <<"medium_risk">>,
          risk_recommendations |-> <<"Government Bonds", "Unit Trusts">>,
          detailed_products |->
              <<[name |-> "Government Bonds (Treasury Bonds)", rank |-> 1,
                 expected_return |-> "8-12%", risk_level |-> "Low", liquidity |-> "Medium",
                 description |-> "Safe government securities with guaranteed returns",
                 suitability_score |-> 8000, pros |-> 2, cons |-> 2]>>,
          investment_probability |-> Float(6500)])

\* One entry of final_recommendations.  A description is held as the name of
\* the product it describes, pros and cons as the number of entries kept.
FinalEntry(i, product_info, user_data) ==
    LET details == IF product_info.product \in DOMAIN investment_products
                   THEN investment_products[product_info.product]
                   ELSE Product("", "", "", 0, 0)
    IN  [name |-> product_info.product,
         rank |-> i,
         expected_return |-> product_info.expected_return,
         risk_level |-> Title(product_info.risk_level),
         liquidity |-> Title(product_info.liquidity),
         description |-> product_info.product,
         suitability_score |-> calculate_suitability_score(product_info, user_data),
         pros |-> Min(3, details.pros),
         cons |-> Min(3, details.cons)]

\* The pipelines set_model is given: one with predict_proba, one with predict
\* only, one whose prediction raises.
Pipelines ==
    {[kind |-> "predict_proba", p |-> 7200], [kind |-> "predict", p |-> 10000],
     [kind |-> "raises", p |-> 0]}

\* Step 3 of get_recommendations: the probability of the model, in
\* ten-thousandths; the profile-based default when the prediction raises, and
\* 0.65 when that raises too.
InvestmentProbability(name, pipelines, user_data) ==
    IF ~Truthy(name) \/ name \notin DOMAIN pipelines THEN None
    ELSE IF pipelines[name].kind # "raises" THEN Float(pipelines[name].p)
    ELSE LET age == Get(user_data, "age", Number(30))
             income == Get(user_data, "monthly_income", Number(30000))
         IN  IF ~IsNumber(age) \/ ~IsNumber(income) THEN Float(6500)
             ELSE Float(Min(9500, 4000 + (income.n * 3) \div 100 + age.n * 20))

\* The try block of get_recommendations, for user data that is not None.
MainPath(user_data, name, pipelines) ==
    IF user_data.t # "dict" THEN Raises("AttributeError")
    ELSE LET user_segment == get_user_segment(user_data)
             given == Get(user_data, "risk_tolerance", Str("Medium"))
             risk_tolerance == IF Truthy(given) THEN given
                               ELSE Str(get_risk_tolerance(user_data))
             looked_up == get_recommendations_by_risk_tolerance(risk_tolerance)
             risk_based == IF looked_up.raised # "" THEN <<>> ELSE looked_up.value
             fallback == get_fallback_recommendations(risk_tolerance)
             products == IF risk_based # <<>> THEN risk_based ELSE fallback.value
         IN  IF risk_based = <<>> /\ fallback.raised # "" THEN Raises(fallback.raised)
             ELSE Return(Dict(
                    [user_segment |-> user_segment,
                     risk_tolerance |-> risk_tolerance,
                     segment_recommendations |->
                         (IF user_segment \in DOMAIN segment_recommendations
                          THEN segment_recommendations[user_segment] ELSE <<>>),
                     risk_recommendations |->
                         [k \in DOMAIN risk_based |-> risk_based[k].product],
                     detailed_products |->
                         [k \in 1..Min(5, Len(products)) |->
                             FinalEntry(k, products[k], user_data)],
                     investment_probability |->
                         InvestmentProbability(name, pipelines, user_data)]))

\* get_recommendations with no handler around its main path.
get_recommendations_unguarded(user_id, user_data, df, name, pipelines) ==
    IF IsNone(user_data) /\ ~IsNone(user_id) /\ ~IsNone(df) /\ user_id.n \notin DOMAIN df.entries
    THEN Return(List(<<>>))
    ELSE LET data == IF IsNone(user_data) /\ ~IsNone(user_id) /\ ~IsNone(df)
                     THEN df.entries[user_id.n] ELSE user_data
         IN  IF IsNone(data) THEN Return(List(<<>>)) ELSE MainPath(data, name, pipelines)

\* get_recommendations(user_id, user_data, df): df is None or, per index
\* entry, the dict of the row.
get_recommendations(user_id, user_data, df, name, pipelines) ==
    IF IsNone(user_data) /\ ~IsNone(user_id) /\ ~IsNone(df) /\ user_id.n \notin DOMAIN df.entries
    THEN Return(List(<<>>))
    ELSE LET data == IF IsNone(user_data) /\ ~IsNone(user_id) /\ ~IsNone(df)
                     THEN df.entries[user_id.n] ELSE user_data
         IN  IF IsNone(data) THEN Return(List(<<>>))
             ELSE IF MainPath(data, name, pipelines).raised # ""
             THEN Return(get_emergency_recommendations(data))
             ELSE MainPath(data, name, pipelines)

\* A key left out of a dict.
Absent == [t |-> "absent"]

\* The dict of the entries that are not left out.
MakeDict(f) == Dict([k \in {key \in DOMAIN f : f[key].t # "absent"} |-> f[k]])

\* The risk tolerances a caller gives: the three levels, 'Very High', a text
\* that is no level, the empty text, None and a list.
RiskTolerances ==
    {Str("Low"), Str("Medium"), Str("High"), Str("Very High"), Str("low"), Str(""),
     None, List(<<"High">>)}

\* The user data a caller gives, as dicts: every key but age and location may
\* be left out, and age, income and experience may be None.
UserDicts ==
    {MakeDict([age |-> a, monthly_income |-> i, investment_experience |-> e,
               risk_tolerance |-> r, location |-> l, investment_horizon |-> h]) :
        a \in {None, Number(25), Number(32), Number(40), Number(55)},
        i \in {Absent, None, Number(60000), Number(120000)},
        e \in {Absent, None, Str("Intermediate"), Str("Advanced investor")},
        r \in RiskTolerances \cup {Absent},
        l \in {Str("Urban"), Str("Rural")},
        h \in {Absent, Str("Long-term (5+ years)"), Str("Short-term")}}

\* A dataset of two users, by index entry.
Dataset ==
    Dict([id \in {1, 2} |->
             MakeDict([age |-> Number(20 + 20 * id), monthly_income |-> Number(60000 * id),
                       risk_tolerance |-> IF id = 1 THEN Str("High") ELSE None])])

\* The method calls made on the recommendation system.
GetRecommendationsCalls ==
    {[op |-> "get_recommendations", user_id |-> None, user_data |-> d, df |-> None] :
        d \in UserDicts \cup {None, Str("not a dict")}}
    \cup {[op |-> "get_recommendations", user_id |-> id, user_data |-> None, df |-> f] :
            id \in {Number(1), Number(2), Number(99)}, f \in {None, Dataset}}

SetModelCalls ==
    {[op |-> "set_model", model_name |-> Str("random_forest"), pipeline |-> p] : p \in Pipelines}

OtherCalls ==
    {[op |-> "get_portfolio_allocation", risk_tolerance |-> r] : r \in RiskTolerances}
    \cup {[op |-> "_get_fallback_recommendations", risk_tolerance |-> r] : r \in RiskTolerances}
    \cup {[op |-> "get_risk_tolerance", user_data |-> d] : d \in UserDicts}

\* The user data _calculate_suitability_score is called with: dicts of the
\* keys it reads, None, and a text.
ScoreUserData ==
    {MakeDict([age |-> a, monthly_income |-> i, risk_tolerance |-> r,
               investment_horizon |-> h]) :
        a \in {None, Number(25), Number(32), Number(40), Number(55)},
        i \in {Absent, None, Number(60000), Number(120000)},
        r \in RiskTolerances \cup {Absent},
        h \in {Absent, Str("Long-term (5+ years)"), Str("Short-term")}}
    \cup {None, Str("not a dict")}

\* The runs: one call, or set_model and then get_recommendations; the run
\* of no call leaves the instance to a call of _calculate_suitability_score.
Runs ==
    {<<>>}
    \cup {<<c>> : c \in GetRecommendationsCalls \cup SetModelCalls \cup OtherCalls}
    \cup {<<s, g>> : s \in SetModelCalls, g \in GetRecommendationsCalls}

NoCall == [op |-> ""]

----------------------------------------------------------------------------
(* The Flask API of api.py.  A user is a row of the table users; a request  *)
(* has headers and a JSON body; a handler gives the table after it and the  *)
(* response.  A text that is split or parsed (the Authorization header, a   *)
(* token, a timestamp) is held as the sequence of its parts.                *)

SECRET_KEY == "fallback-secret-key"

\* A response: the status and the JSON body.
Response(status, body) == [status |-> status, body |-> body]

\* Flask answers an exception that no handler catches with 500.
InternalServerError(e) == Response(500, Str(e))

\* A text held as its parts.
Text(parts) == [t |-> "str", parts |-> parts]

\* The parts of a header text: a space, a word, a token.
Space == [t |-> "space"]

Word(w) == [t |-> "word", v |-> w]

\* jwt.encode(payload, key)
jwt_encode(payload, key) == <<[t |-> "jwt", payload |-> payload, key |-> key]>>

\* jwt.decode(token, key, algorithms=['HS256']) at time now: the payload, or
\* an exception for a text that is no token, a token signed with another key,
\* a token whose exp has passed.
jwt_decode(token, key, now) ==
    IF Len(token) # 1 \/ token[1].t # "jwt" THEN Raises("DecodeError")
    ELSE IF token[1].key # key THEN Raises("InvalidSignatureError")
    ELSE IF "exp" \in DOMAIN token[1].payload /\ token[1].payload.exp <= now
    THEN Raises("ExpiredSignatureError")
    ELSE [raised |-> "", value |-> token[1].payload]

\* s.split(" ")
RECURSIVE Split(_)
Split(s) ==
    IF \A i \in DOMAIN s : s[i] # Space THEN <<s>>
    ELSE LET i == CHOOSE k \in DOMAIN s : s[k] = Space /\ \A j \in 1..(k - 1) : s[j] # Space
         IN  <<SubSeq(s, 1, i - 1)>> \o Split(SubSeq(s, i + 1, Len(s)))

\* generate_password_hash(password, method='sha256')
generate_password_hash(password) == [t |-> "hash", method |-> "sha256", of |-> password]

\* check_password_hash(pwhash, password)
check_password_hash(pwhash, password) == pwhash = generate_password_hash(password)

\* A row of users.
User(user_id, username, email, password, age, income, risk_tolerance, created_at) ==
    [t |-> "User", user_id |-> user_id, username |-> username, email |-> email,
     password |-> password, age |-> age, income |-> income,
     risk_tolerance |-> risk_tolerance, created_at |-> created_at]

\* User.query.get(ident): the row of that primary key, or None.
QueryGet(users, ident) ==
    IF \E i \in DOMAIN users : users[i].user_id = ident
    THEN users[CHOOSE i \in DOMAIN users : users[i].user_id = ident]
    ELSE None

\* User.query.filter_by(username=value).first() and the same by email.
FirstByUsername(users, value) ==
    IF \E i \in DOMAIN users : users[i].username = value
    THEN users[CHOOSE i \in DOMAIN users :
                  users[i].username = value /\ \A j \in 1..(i - 1) : users[j].username # value]
    ELSE None

FirstByEmail(users, value) ==
    IF \E i \in DOMAIN users : users[i].email = value
    THEN users[CHOOSE i \in DOMAIN users :
                  users[i].email = value /\ \A j \in 1..(i - 1) : users[j].email # value]
    ELSE None

\* nextval of the sequence of the primary key, which PostgreSQL never gives
\* back: its last value is sequence.
nextval(sequence) == sequence + 1

\* What a handler ends with: the table and the response.
Handled(users, response) == [users |-> users, response |-> response]

\* A part of a handler ends the request with this response.
Answer(response) == [done |-> TRUE, response |-> response]

\* A part of a handler ends and the handler goes on.
GoOn == [done |-> FALSE, response |-> Response(0, None)]

\* token_required: the current user of the request, or the response that
\* denies it.  request.headers['Authorization'].split(" ")[1] raises
\* IndexError for a header of one word, outside the try.
token_required(headers, users, now) ==
    LET parts == IF "Authorization" \in DOMAIN headers
                 THEN Split(headers["Authorization"]) ELSE <<>>
        token == IF Len(parts) >= 2 THEN parts[2] ELSE <<>>
        data == jwt_decode(token, SECRET_KEY, now)
    IN  IF "Authorization" \in DOMAIN headers /\ Len(parts) < 2
        THEN [denied |-> TRUE, response |-> InternalServerError("IndexError"),
              current_user |-> None]
        ELSE IF token = <<>>
        THEN [denied |-> TRUE, response |-> Response(401, Str("Token is missing!")),
              current_user |-> None]
        ELSE IF data.raised # "" \/ "sub" \notin DOMAIN data.value
        THEN [denied |-> TRUE, response |-> Response(401, Str("Token is invalid!")),
              current_user |-> None]
        ELSE [denied |-> FALSE, response |-> Response(200, None),
              current_user |-> QueryGet(users, data.value.sub)]

\* register, l.71-74: the look-up of the username.
register_username(users, data) ==
    IF "username" \notin DOMAIN data.entries THEN Answer(InternalServerError("KeyError"))
    ELSE IF ~IsNone(FirstByUsername(users, data.entries.username))
    THEN Answer(Response(400, Str("Username already exists")))
    ELSE GoOn

\* register without the look-up of the email.
register_email_not_looked_up(users, data) ==
    IF "email" \notin DOMAIN data.entries THEN Answer(InternalServerError("KeyError"))
    ELSE GoOn

\* register, l.76-77: the look-up of the email.
register_email(users, data) ==
    IF "email" \notin DOMAIN data.entries THEN Answer(InternalServerError("KeyError"))
    ELSE IF ~IsNone(FirstByEmail(users, data.entries.email))
    THEN Answer(Response(400, Str("Email already exists")))
    ELSE GoOn

\* What the insert ends with: the table, the sequence and the response.
Inserted(users, sequence, response) ==
    [users |-> users, sequence |-> sequence, response |-> response]

\* register, l.79-90: the hash, the INSERT and the commit.  created_at is the
\* time of the insert.  The INSERT takes the next value of the sequence and
\* then fails with IntegrityError on a username or an email that is NULL or
\* that a row of the table has (nullable=False, unique=True); the value
\* taken is lost.
register_insert(users, sequence, data, created_at) ==
    IF "password" \notin DOMAIN data.entries
    THEN Inserted(users, sequence, InternalServerError("KeyError"))
    ELSE IF ~IsStr(data.entries.password)
    THEN Inserted(users, sequence, InternalServerError("AttributeError"))
    ELSE IF \/ IsNone(data.entries.username)
            \/ IsNone(data.entries.email)
            \/ \E i \in DOMAIN users :
                  \/ users[i].username = data.entries.username
                  \/ users[i].email = data.entries.email
    THEN Inserted(users, nextval(sequence), InternalServerError("IntegrityError"))
    ELSE Inserted(Append(users,
                         User(nextval(sequence), data.entries.username, data.entries.email,
                              generate_password_hash(data.entries.password),
                              None, None, None, created_at)),
                  nextval(sequence),
                  Response(201, Str("User registered successfully")))

\* POST /api/register served with no other request in between.
register(users, sequence, data, created_at) ==
    IF register_username(users, data).done
    THEN Inserted(users, sequence, register_username(users, data).response)
    ELSE IF register_email(users, data).done
    THEN Inserted(users, sequence, register_email(users, data).response)
    ELSE register_insert(users, sequence, data, created_at)

\* POST /api/login: the token holds the user's id and expires a day later.
login(users, data, now) ==
    IF "username" \notin DOMAIN data.entries THEN InternalServerError("KeyError")
    ELSE LET user == FirstByUsername(users, data.entries.username)
         IN  IF IsNone(user) THEN Response(401, Str("Invalid credentials"))
             ELSE IF "password" \notin DOMAIN data.entries THEN InternalServerError("KeyError")
             ELSE IF ~check_password_hash(user.password, data.entries.password)
             THEN Response(401, Str("Invalid credentials"))
             ELSE Response(200, Dict([token |->
                      Text(jwt_encode([sub |-> user.user_id, exp |-> now + 1], SECRET_KEY))]))

\* float(x) of a whole number, in ten-thousandths.
ToFloat(x) == IF x.t = "float" THEN x ELSE Float(x.n * 10000)

\* created_at.isoformat(): the microseconds are left out when they are 0.
isoformat(created_at) ==
    [t |-> "str", seconds |-> created_at.seconds,
     fraction |-> IF created_at.microsecond = 0 THEN <<>> ELSE <<created_at.microsecond>>]

\* The handler of GET /api/user.
get_user(current_user) ==
    IF IsNone(current_user) THEN InternalServerError("AttributeError")
    ELSE Response(200, Dict(
            [user_id |-> Number(current_user.user_id),
             username |-> current_user.username,
             email |-> current_user.email,
             age |-> current_user.age,
             income |-> IF Truthy(current_user.income) THEN ToFloat(current_user.income)
                        ELSE None,
             risk_tolerance |-> current_user.risk_tolerance,
             created_at |-> isoformat(current_user.created_at)]))

\* Python's == of two values of a request or of a row.
SameValue(a, b) ==
    IF a.t = b.t THEN a = b
    ELSE IF a.t = "int" /\ b.t = "float" THEN ToFloat(a) = b
    ELSE IF a.t = "float" /\ b.t = "int" THEN a = ToFloat(b)
    ELSE FALSE

\* The attributes of current_user that l.130-132 give another value than
\* the one loaded, with that value: what the session writes at commit.
Changes(current_user, data) ==
    [c \in {c \in {"age", "income", "risk_tolerance"} :
               c \in DOMAIN data.entries /\ ~SameValue(data.entries[c], current_user[c])} |->
        data.entries[c]]

\* A part of update_user ends and the handler goes on to commit changes.
GoOnWith(changes) == [done |-> FALSE, response |-> Response(0, None), changes |-> changes]

\* update_user without the comparison of user_id with the current user.
update_user_unchecked(current_user, user_id, data) ==
    IF IsNone(current_user)
    THEN [done |-> TRUE, response |-> InternalServerError("AttributeError"), changes |-> <<>>]
    ELSE GoOnWith(Changes(current_user, data))

\* The handler of PUT /api/user/<user_id>, l.125-132: up to the commit.
update_user(current_user, user_id, data) ==
    IF IsNone(current_user)
    THEN [done |-> TRUE, response |-> InternalServerError("AttributeError"), changes |-> <<>>]
    ELSE IF current_user.user_id # user_id
    THEN [done |-> TRUE, response |-> Response(403, Str("Unauthorized")), changes |-> <<>>]
    ELSE GoOnWith(Changes(current_user, data))

\* db.session.commit() of update_user, l.134-136: the UPDATE of the changed
\* attributes of the row of that primary key.
update_user_commit(users, ident, changes) ==
    Handled([i \in DOMAIN users |->
                IF users[i].user_id # ident THEN users[i]
                ELSE [c \in DOMAIN users[i] |->
                         IF c \in DOMAIN changes THEN changes[c] ELSE users[i][c]]],
            Response(200, Dict([message |-> Str("User updated successfully")])))

\* risk_mapping of recommend, NaN for a text that is no key.
api_risk_mapping(risk_tolerance) ==
    IF ~IsStr(risk_tolerance) THEN None
    ELSE CASE risk_tolerance.v = "Low" -> Number(0)
           [] risk_tolerance.v = "Medium" -> Number(1)
           [] risk_tolerance.v = "High" -> Number(2)
           [] OTHER -> None

\* user_features of recommend: one row of age, income and risk_tolerance.
\* The income is  data.get('income', float(current_user.income))  if
\* current_user.income  else  500000.
user_features(current_user, data) ==
    [age |-> Get(data, "age", current_user.age),
     income |-> IF Truthy(current_user.income)
                THEN Get(data, "income", ToFloat(current_user.income))
                ELSE Number(500000),
     risk_tolerance |->
        LET given == Get(data, "risk_tolerance", current_user.risk_tolerance)
        IN  api_risk_mapping(IF Truthy(given) THEN given ELSE Str("Medium"))]

\* The table financial_products, by product_id, and product_features.csv,
\* the product_id by row.
financial_products == [product_id \in {1, 2} |-> [product_id |-> product_id]]

product_features == <<2, 1, 3>>

\* The handler of POST /api/recommend, with the rows model.kneighbors gives;
\* kneighbors raises for a feature that is missing.
recommend(current_user, data, indices) ==
    IF IsNone(current_user) THEN InternalServerError("AttributeError")
    ELSE LET features == user_features(current_user, data)
         IN  IF \E c \in DOMAIN features : ~(features[c].t \in {"int", "float"})
             THEN InternalServerError("ValueError")
             ELSE Response(200, List(
                     [k \in 1..Len(SelectSeq(indices,
                                  LAMBDA idx : product_features[idx] \in DOMAIN financial_products)) |->
                         financial_products[product_features[
                             SelectSeq(indices,
                                  LAMBDA idx : product_features[idx] \in DOMAIN financial_products)[k]]]]))

\* The time of an insert: the seconds and the microsecond within the second.
Timestamp(seconds, microsecond) == [seconds |-> seconds, microsecond |-> microsecond]

\* The table users when the server starts: empty, or with two users; the
\* first has a full profile, the second registered and nothing more.
Databases ==
    {<<>>,
     <<User(1, Str("amina"), Str("amina@example.com"), generate_password_hash(Str("pw-a")),
            Number(30), Number(60000), Str("Medium"), Timestamp(0, 0)),
       User(2, Str("brian"), Str("brian@example.com"), generate_password_hash(Str("pw-b")),
            None, None, None, Timestamp(0, 123456))>>}

\* The microsecond of an insert.
Microseconds == {0, 123456}

\* The days the clock runs through, and the requests made in one run of the
\* server.
MaxDays == 1

MaxRequests == 2

\* The JSON bodies of the requests.
RegisterBodies ==
    {MakeDict([username |-> u, email |-> e, password |-> p]) :
        u \in {Str("amina"), Str("carol")},
        e \in {Str("amina@example.com"), Str("carol@example.com")},
        p \in {Str("pw-c")}}
    \cup {MakeDict([username |-> Str("carol"), email |-> Absent, password |-> Str("pw-c")]),
          MakeDict([username |-> None, email |-> Str("carol@example.com"),
                    password |-> Str("pw-c")])}

LoginBodies ==
    {MakeDict([username |-> u, password |-> p]) :
        u \in {Str("amina"), Str("carol"), Str("nobody")},
        p \in {Str("pw-a"), Str("pw-c")}}

FullUpdate ==
    MakeDict([age |-> Number(45), income |-> Number(70000), risk_tolerance |-> Str("High"),
              username |-> Str("mallory")])

UpdateBodies ==
    {FullUpdate,
     MakeDict([age |-> Absent, income |-> Absent, risk_tolerance |-> Absent,
               username |-> Absent]),
     MakeDict([age |-> Number(45), income |-> Number(60000), risk_tolerance |-> Absent,
               username |-> Absent]),
     MakeDict([age |-> Number(30), income |-> Number(70000), risk_tolerance |-> Absent,
               username |-> Absent])}

FullRecommend ==
    MakeDict([age |-> Number(45), income |-> Number(80000), risk_tolerance |-> Str("High")])

RecommendBodies ==
    {FullRecommend,
     MakeDict([age |-> Absent, income |-> Absent, risk_tolerance |-> Absent]),
     MakeDict([age |-> Absent, income |-> Number(80000), risk_tolerance |-> None]),
     MakeDict([age |-> Number(45), income |-> Absent, risk_tolerance |-> Str("Very High")])}

\* The rows model.kneighbors gives.
Neighbours == {<<1, 2>>, <<3>>}

\* The tokens a request may carry at time now: those login has issued to
\* user 1 up to now, that is fresh or expired; fresh ones of user 2 and of a
\* user 9 who is gone; one signed with another key; one without sub.
Tokens(now) ==
    {jwt_encode([sub |-> 1, exp |-> e], SECRET_KEY) : e \in 1..(now + 1)}
    \cup {jwt_encode([sub |-> id, exp |-> now + 1], SECRET_KEY) : id \in {2, 9}}
    \cup {jwt_encode([sub |-> 1, exp |-> now + 1], "another-key"),
          jwt_encode([exp |-> now + 1], SECRET_KEY)}

\* The headers of a request: no Authorization header; 'Bearer <token>';
\* a scheme and no token; 'Bearer ' and nothing; a word that is no token; a
\* token and no scheme.
NoHeaders == << >>

Authorization(value) == [name \in {"Authorization"} |-> value]

Bearer(token) == Authorization(<<Word("Bearer"), Space>> \o token)

Headers(now) ==
    {NoHeaders}
    \cup {Bearer(token) : token \in Tokens(now)}
    \cup {Authorization(<<Word("Bearer")>>),
          Authorization(<<Word("Bearer"), Space>>),
          Bearer(<<Word("abc")>>)}
    \cup {Authorization(jwt_encode([sub |-> 1, exp |-> now + 1], SECRET_KEY))}

NoRequest == [method |-> "", path |-> ""]

NoResponse == Response(0, None)

NoFeatures == << >>

NoRun == [choice |-> "", page |-> ""]

\* The views as the routes serve them, behind token_required.
GET_user(headers, users, now) ==
    LET auth == token_required(headers, users, now)
    IN  IF auth.denied THEN auth.response ELSE get_user(auth.current_user)

\* PUT /api/user/<user_id> served with no other request in between.
PUT_user(headers, user_id, data, users, now) ==
    LET auth == token_required(headers, users, now)
        updated == update_user(auth.current_user, user_id, data)
    IN  IF auth.denied THEN Handled(users, auth.response)
        ELSE IF updated.done THEN Handled(users, updated.response)
        ELSE update_user_commit(users, auth.current_user.user_id, updated.changes)

POST_recommend(headers, data, indices, users, now) ==
    LET auth == token_required(headers, users, now)
    IN  IF auth.denied THEN auth.response ELSE recommend(auth.current_user, data, indices)

----------------------------------------------------------------------------
(* The Streamlit client of app.py.  The session holds the token and the     *)
(* cached user_data; one run of main shows the page of the choice made in   *)
(* the sidebar, and an exception ends the run.                              *)

\* A request the client has sent, with the status of the answer.
Sent(method, path, json, status) ==
    [method |-> method, path |-> path, json |-> json, status |-> status]

\* menu_options of main
menu_options(token) ==
    IF Truthy(token)
    THEN <<"Get Recommendations", "My Profile", "Financial Products", "Logout">>
    ELSE <<"Login", "Register">>

\* The branch main takes for a choice: the page shown, "logout", or none.
Page(choice, token) ==
    CASE choice = "Login" /\ ~Truthy(token) -> "show_login"
      [] choice = "Register" /\ ~Truthy(token) -> "show_register"
      [] choice = "Get Recommendations" /\ Truthy(token) -> "show_recommendations"
      [] choice = "My Profile" /\ Truthy(token) -> "show_profile"
      [] choice = "Financial Products" /\ Truthy(token) -> "show_products"
      [] choice = "Logout" /\ Truthy(token) -> "logout"
      [] OTHER -> ""

\* headers={"Authorization": f"Bearer {token}"}
AuthorizationOf(token) == Bearer(token.parts)

\* get_user_profile: the profile GET /api/user answers with, None without a
\* token or with another answer; and the requests sent.
get_user_profile(token, users, now) ==
    IF ~Truthy(token) THEN [value |-> None, requests |-> <<>>]
    ELSE LET answer == GET_user(AuthorizationOf(token), users, now)
         IN  [value |-> IF answer.status = 200 THEN answer.body ELSE None,
              requests |-> <<Sent("GET", "/api/user", None, answer.status)>>]

\* display_profile: the exception it raises, "" for none.  profile.get of
\* None; profile['created_at'] of a dict without it; strptime with
\* '%Y-%m-%dT%H:%M:%S' of a timestamp with microseconds; the format ',.2f'
\* of an income that is None.
display_profile(profile) ==
    IF profile.t # "dict" THEN "AttributeError"
    ELSE IF "created_at" \notin DOMAIN profile.entries THEN "KeyError"
    ELSE IF profile.entries.created_at.fraction # <<>> THEN "ValueError"
    ELSE IF ~(Get(profile, "income", Number(0)).t \in {"int", "float"}) THEN "TypeError"
    ELSE ""

\* The statement of app.py a run of main goes on from: the line and the
\* body of the request to send there.  Line 10 is main, run again.
At(line, json) == [line |-> line, json |-> json]

\* The run of main is over.
Over == At(0, None)

\* What a step of a run of main ends with: the session, the table of the
\* server, the exception raised, the requests sent and the statement the run
\* goes on from.  A step sends one request at most.
Ran(token, user_data, users, raised, requests, resume) ==
    [token |-> token, user_data |-> user_data, users |-> users, raised |-> raised,
     requests |-> requests, resume |-> resume]

\* show_login up to line 58, with the form left alone or submitted.
show_login(token, user_data, users, now, submit, username, password) ==
    IF ~submit THEN Ran(token, user_data, users, "", <<>>, Over)
    ELSE LET data == Dict([username |-> username, password |-> password])
             answer == login(users, data, now)
             sent == <<Sent("POST", "/api/login", data, answer.status)>>
         IN  IF answer.status = 200
             THEN Ran(Get(answer.body, "token", None), user_data, users, "", sent,
                      At(59, None))
             ELSE Ran(token, user_data, users, "", sent, Over)

\* st.session_state.user_data = get_user_profile(); st.experimental_rerun():
\* lines 59-61 of show_login and lines 205-206 of show_profile.
load_and_rerun(token, users, now) ==
    LET profile == get_user_profile(token, users, now)
    IN  Ran(token, profile.value, users, "", profile.requests, At(10, None))

\* show_register; response.json() of an answer that is no JSON raises.  The
\* sequence of the server after the run is given too.
show_register(token, user_data, users, sequence, created_at, submit, username, email, password, confirm_password) ==
    IF ~submit \/ password # confirm_password
    THEN Ran(token, user_data, users, "", <<>>, Over) @@ [sequence |-> sequence]
    ELSE LET data == Dict([username |-> username, email |-> email, password |-> password])
             handled == register(users, sequence, data, created_at)
         IN  Ran(token, user_data, handled.users,
                 IF handled.response.status = 500 THEN "JSONDecodeError" ELSE "",
                 <<Sent("POST", "/api/register", data, handled.response.status)>>, Over)
             @@ [sequence |-> handled.sequence]

\* The widgets of the profile form, lines 107-114: the exception raised, ""
\* for none.  st.number_input raises for a value that is a float next to a
\* min_value that is an int; list.index raises for a text not in the list.
profile_form(profile) ==
    IF \/ Get(profile, "age", Number(30)).t = "float"
       \/ Get(profile, "income", Number(500000)).t = "float"
    THEN "StreamlitAPIException"
    ELSE IF \/ ~IsStr(Get(profile, "risk_tolerance", Str("Medium")))
            \/ RiskIndex(Get(profile, "risk_tolerance", Str("Medium")).v) = 0
    THEN "ValueError"
    ELSE ""

\* Lines 126-136 of show_recommendations: the update is sent and the body of
\* an answer of 200 replaces the cached user_data.
update_profile(token, user_data, users, now, update_data) ==
    LET handled == PUT_user(AuthorizationOf(token), user_data.entries.user_id.n, update_data,
                            users, now)
    IN  Ran(token,
            IF handled.response.status = 200 THEN handled.response.body ELSE user_data,
            handled.users, "",
            <<[method |-> "PUT", path |-> "/api/user/<user_id>",
               user_id |-> user_data.entries.user_id, json |-> update_data,
               status |-> handled.response.status]>>,
            At(141, None))

\* Lines 141-151 of show_recommendations.
request_recommendations(token, user_data, users, now, indices) ==
    Ran(token, user_data, users, "",
        <<Sent("POST", "/api/recommend", user_data,
               POST_recommend(AuthorizationOf(token), user_data, indices, users, now).status)>>,
        Over)

\* show_recommendations up to its second request, with the values entered in
\* the form, the form submitted or not, and the button pressed or not.
show_recommendations(token, user_data, users, now, age, income, risk_tolerance, submitted, button, indices) ==
    LET loaded == IF ~Truthy(user_data) THEN get_user_profile(token, users, now)
                  ELSE [value |-> user_data, requests |-> <<>>]
        profile == loaded.value
        update_data == Dict([age |-> age, income |-> income, risk_tolerance |-> risk_tolerance])
    IN  IF display_profile(profile) # ""
        THEN Ran(token, profile, users, display_profile(profile), loaded.requests, Over)
        ELSE IF profile_form(profile) # ""
        THEN Ran(token, profile, users, profile_form(profile), loaded.requests, Over)
        ELSE IF submitted /\ "user_id" \notin DOMAIN profile.entries
        THEN Ran(token, profile, users, "KeyError", loaded.requests, Over)
        ELSE IF submitted /\ loaded.requests # <<>>
        THEN Ran(token, profile, users, "", loaded.requests, At(126, update_data))
        ELSE IF submitted THEN update_profile(token, profile, users, now, update_data)
        ELSE IF button /\ loaded.requests # <<>>
        THEN Ran(token, profile, users, "", loaded.requests, At(141, None))
        ELSE IF button THEN request_recommendations(token, profile, users, now, indices)
        ELSE Ran(token, profile, users, "", loaded.requests, Over)

\* show_profile up to its second request, with the refresh button pressed or
\* not.
show_profile(token, user_data, users, now, refresh) ==
    LET loaded == IF ~Truthy(user_data) THEN get_user_profile(token, users, now)
                  ELSE [value |-> user_data, requests |-> <<>>]
        profile == loaded.value
    IN  IF ~Truthy(profile) THEN Ran(token, profile, users, "", loaded.requests, Over)
        ELSE IF display_profile(profile) # ""
        THEN Ran(token, profile, users, display_profile(profile), loaded.requests, Over)
        ELSE IF refresh /\ loaded.requests # <<>>
        THEN Ran(token, profile, users, "", loaded.requests, At(205, None))
        ELSE IF refresh THEN load_and_rerun(token, users, now)
        ELSE Ran(token, profile, users, "", loaded.requests, Over)

\* show_products up to its second request, with the details of one product
\* asked for or not; the body of that request is
\* {**user_data, "product_id": ...}.
show_products(token, user_data, users, now, details) ==
    LET listed == <<Sent("GET", "/api/products", None, 200)>>
    IN  IF ~details THEN Ran(token, user_data, users, "", listed, Over)
        ELSE IF user_data.t # "dict" THEN Ran(token, user_data, users, "TypeError", listed, Over)
        ELSE Ran(token, user_data, users, "", listed,
                 At(270, Dict([k \in DOMAIN user_data.entries \cup {"product_id"} |->
                                  IF k = "product_id" THEN Number(1)
                                  ELSE user_data.entries[k]])))

\* Lines 270-278 of show_products.
product_details(token, user_data, users, now, data, indices) ==
    Ran(token, user_data, users, "",
        <<Sent("POST", "/api/recommend", data,
               POST_recommend(AuthorizationOf(token), data, indices, users, now).status)>>,
        Over)

\* The run of main goes on from the statement it has come to.
resumed(resume, token, user_data, users, now, indices) ==
    CASE resume.line \in {59, 205} -> load_and_rerun(token, users, now)
      [] resume.line = 126 -> update_profile(token, user_data, users, now, resume.json)
      [] resume.line = 141 -> request_recommendations(token, user_data, users, now, indices)
      [] resume.line = 270 ->
            product_details(token, user_data, users, now, resume.json, indices)

\* Logout that keeps the cached user_data.
logout_keeping_user_data(token, user_data, users) == Ran(None, user_data, users, "", <<>>, Over)

\* The branch of main for Logout.
logout(token, user_data, users) == Ran(None, Dict(<< >>), users, "", <<>>, Over)

\* What the user enters: names, passwords, the values of the profile form.
Usernames == {Str("amina"), Str("carol")}

Passwords == {Str("pw-a"), Str("pw-c")}

Emails == {Str("carol@example.com")}

FormAges == {Number(45)}

FormIncomes == {Number(70000)}

FormRiskTolerances == {Str("Low"), Str("High")}

\* The page runs of one session.
MaxRuns == 4

----------------------------------------------------------------------------
(* The upload endpoint of main.py (FastAPI, POST /recommend).  A file name  *)
(* is the sequence of its characters; an upload is the file's name and the  *)
(* sheet read_excel reads from its content.                                 *)

\* What the endpoint answers: the status, the detail of an HTTPException,
\* the exception that no handler caught, and the records returned.
UploadResponse(status_code, detail, exception, records) ==
    [status_code |-> status_code, detail |-> detail, raised |-> exception,
     records |-> records]

\* raise HTTPException(status_code=..., detail=...)
HTTPException(status_code, detail) == UploadResponse(status_code, detail, "", <<>>)

\* An exception raised in the handler: the server answers 500.
Unhandled(e) == UploadResponse(500, "Internal Server Error", e, <<>>)

\* No file is uploaded yet.
NoUpload == [filename |-> <<>>, sheet |-> NoFrame, response |-> UploadResponse(0, "", "", <<>>)]

----------------------------------------------------------------------------
(* The state: the calls still to come, the place in the current call, its   *)
(* local variables, the output file, and what each call ended with.         *)

VARIABLES
    pending,              \* the sheets still to be labelled, in order
    pc,                   \* the step of the current call, "idle" between calls
    df,                   \* the sheet read by read_excel
    df_subset,            \* the selected, renamed, encoded, labelled frame
    scaler,               \* the scaler object bound to 'scaler'
    household_scaled,
    investment_profiles,
    investment_scaled,
    similarity_matrix,
    csv,                  \* output_csv_path: <<>> while absent, else <<frame>>
    returned,             \* the frame the last call returned
    raised,               \* the exception the last call raised, "" for none
    history,              \* per finished call: the sheet, the exception, the labels
                          \* and the similarity matrix
    rounded,              \* the similarities this build has computed in float64
    calls,                \* the method calls still to be made on the recommender
    best_model_name,      \* self.best_model_name
    model_pipelines,      \* self.model_pipelines: per model name, its pipeline
    served,               \* the last method call made
    result,               \* what it returned or raised
    users,                \* the table users of the API's database
    sequence,             \* the last value of the sequence of users.user_id
    handling,             \* the requests the server has begun and not answered
    clock,                \* the time, in days
    steps,                \* the requests answered, or the runs of main begun
    request,              \* the last request the API served
    response,             \* its response
    features,             \* user_features of the last POST /api/recommend
    token,                \* st.session_state.token
    user_data,            \* st.session_state.user_data
    run,                  \* the last run of main: the choice, the page, the requests
    resume,               \* the statement that run goes on from, Over when it is over
    upload                \* the last upload to POST /recommend and its response

labeler == <<pending, pc, df, df_subset, scaler, household_scaled, investment_profiles,
             investment_scaled, similarity_matrix, csv, returned, raised, history, rounded>>

recommender == <<calls, best_model_name, model_pipelines, served, result>>

api == <<users, sequence, handling, clock, request, response, features>>

client == <<token, user_data, run, resume>>

web == <<api, client, steps, upload>>

vars == <<labeler, recommender, web>>

locals == <<df, df_subset, scaler, household_scaled, investment_profiles,
            investment_scaled, similarity_matrix>>

Labels(fr) == [i \in 1..Len(fr.data) |-> fr.data[i]["investment_label"]]

\* The scaler object of the call before, kept instead of a new one.
ScalerOfLastCall == scaler

\* scaler = StandardScaler()
StandardScaler == UnfittedScaler

\* No call of the labeler is made or to come.
LabelerIdle ==
    /\ pending = <<>>
    /\ pc = "idle"
    /\ df = NoFrame
    /\ df_subset = NoFrame
    /\ scaler = UnfittedScaler
    /\ household_scaled = <<>>
    /\ investment_profiles = NoProfiles
    /\ investment_scaled = <<>>
    /\ similarity_matrix = <<>>
    /\ csv = <<>>
    /\ returned = NoFrame
    /\ raised = ""
    /\ history = <<>>
    /\ rounded = {}

\* No method of the recommendation system is called or to be called.
RecommenderIdle ==
    /\ calls = <<>>
    /\ best_model_name = None
    /\ model_pipelines = <<>>
    /\ served = NoCall
    /\ result = Return(None)

\* No page of the client has run: main has initialised the session.
ClientIdle ==
    /\ token = None
    /\ user_data = Dict(<< >>)
    /\ run = NoRun
    /\ resume = Over

\* No file is uploaded to the endpoint of main.py.
UploadIdle == upload = NoUpload

\* The API serves no request.
ApiIdle ==
    /\ users = <<>>
    /\ sequence = 0
    /\ handling = <<>>
    /\ clock = 0
    /\ steps = 0
    /\ request = NoRequest
    /\ response = NoResponse
    /\ features = NoFeatures

InitWith(queue) ==
    /\ RecommenderIdle
    /\ ApiIdle
    /\ ClientIdle
    /\ UploadIdle
    /\ pending = queue
    /\ pc = "idle"
    /\ df = NoFrame
    /\ df_subset = NoFrame
    /\ scaler = UnfittedScaler
    /\ household_scaled = <<>>
    /\ investment_profiles = NoProfiles
    /\ investment_scaled = <<>>
    /\ similarity_matrix = <<>>
    /\ csv = <<>>
    /\ returned = NoFrame
    /\ raised = ""
    /\ history = <<>>
    /\ rounded = {}

\* One call, on any sheet.
Init == \E s \in Sheets : InitWith(<<s>>)

\* Up to SeqLen calls in a row.
InitSeq == \E q \in UNION {[1..n -> SeqSheets] : n \in 1..SeqLen} : InitWith(q)

\* The call ends with exception e, the frame at hand saved all the same.
RaiseAfterSaving(e) ==
    /\ pc' = "idle"
    /\ raised' = e
    /\ history' = Append(history, [sheet |-> df, raised |-> e, labels |-> <<>>, sim |-> <<>>])
    /\ csv' = <<df_subset>>
    /\ UNCHANGED returned

\* A batch of example households is labelled, and then the same batch with
\* its first household raised.
InitRaise ==
    \E b \in ExampleBatches : \E r \in Raised(b) : InitWith(<<SheetOf(b), SheetOf(r)>>)

\* The call ends with exception e: no file is written, nothing is returned.
Raise(e) ==
    /\ pc' = "idle"
    /\ raised' = e
    /\ history' = Append(history, [sheet |-> df, raised |-> e, labels |-> <<>>, sim |-> <<>>])
    /\ UNCHANGED <<csv, returned>>

\* Step 1: df = pd.read_excel(input_excel_path), in a new frame of locals.
Call ==
    /\ pc = "idle"
    /\ UNCHANGED <<recommender, web, rounded>>
    /\ pending # <<>>
    /\ pending' = Tail(pending)
    /\ df' = Head(pending)
    /\ df_subset' = NoFrame
    /\ household_scaled' = <<>>
    /\ investment_profiles' = NoProfiles
    /\ investment_scaled' = <<>>
    /\ similarity_matrix' = <<>>
    /\ returned' = NoFrame
    /\ raised' = ""
    /\ pc' = "select"
    /\ UNCHANGED <<scaler, csv, history>>

\* Steps 2 and 3.
Select ==
    /\ pc = "select"
    /\ UNCHANGED <<recommender, web, rounded>>
    /\ IF MissingCols(df) # {}
       THEN /\ Raise("KeyError")
            /\ UNCHANGED <<pending, locals>>
       ELSE /\ df_subset' = Rename(SelectCols(df), columns)
            /\ pc' = "usage"
            /\ UNCHANGED <<pending, df, scaler, household_scaled, investment_profiles,
                           investment_scaled, similarity_matrix, csv, returned, raised,
                           history>>

\* Step 4.
Usage ==
    /\ pc = "usage"
    /\ UNCHANGED <<recommender, web, rounded>>
    /\ df_subset' = MapUsage(df_subset)
    /\ pc' = "demographics"
    /\ UNCHANGED <<pending, df, scaler, household_scaled, investment_profiles,
                   investment_scaled, similarity_matrix, csv, returned, raised, history>>

\* Step 5.
Demographics ==
    /\ pc = "demographics"
    /\ UNCHANGED <<recommender, web, rounded>>
    /\ df_subset' = EncodeDemographics(df_subset)
    /\ pc' = "fillna"
    /\ UNCHANGED <<pending, df, scaler, household_scaled, investment_profiles,
                   investment_scaled, similarity_matrix, csv, returned, raised, history>>

\* Step 6 with the medians of the frame saved by the call before, when there
\* is one, in place of the medians of the frame at hand.
FillNaWithSavedMedians ==
    /\ pc = "fillna"
    /\ UNCHANGED <<recommender, web, rounded>>
    /\ df_subset' =
          (IF csv = <<>> THEN FillNaNs(df_subset)
           ELSE fillna(fillna(df_subset, "monthly_income",
                              median(csv[1].data, "monthly_income")),
                       "monthly_expenditure", median(csv[1].data, "monthly_expenditure")))
    /\ pc' = "scale"
    /\ UNCHANGED <<pending, df, scaler, household_scaled, investment_profiles,
                   investment_scaled, similarity_matrix, csv, returned, raised, history>>

\* Step 6.
FillNa ==
    /\ pc = "fillna"
    /\ UNCHANGED <<recommender, web, rounded>>
    /\ df_subset' = FillNaNs(df_subset)
    /\ pc' = "scale"
    /\ UNCHANGED <<pending, df, scaler, household_scaled, investment_profiles,
                   investment_scaled, similarity_matrix, csv, returned, raised, history>>

\* Step 7: scaler = StandardScaler(); scaler.fit_transform(df_subset), which
\* refuses a frame of no row with ValueError.
Scale ==
    /\ pc = "scale"
    /\ UNCHANGED <<recommender, web, rounded>>
    /\ IF Len(df_subset.data) = 0
       THEN /\ scaler' = StandardScaler
            /\ Raise("ValueError")
            /\ UNCHANGED <<pending, df, df_subset, household_scaled, investment_profiles,
                           investment_scaled, similarity_matrix>>
       ELSE LET fitted == Fit(StandardScaler, df_subset.data)
            IN  /\ scaler' = fitted
                /\ household_scaled' = Transform(fitted, df_subset.data)
                /\ pc' = "profiles"
                /\ UNCHANGED <<pending, df, df_subset, investment_profiles,
                               investment_scaled, similarity_matrix, csv, returned,
                               raised, history>>

\* Step 8.
Profiles ==
    /\ pc = "profiles"
    /\ UNCHANGED <<recommender, web, rounded>>
    /\ investment_profiles' = InvestmentProfiles
    /\ investment_scaled' = TransformProfiles(scaler, InvestmentProfiles)
    /\ pc' = "similarity"
    /\ UNCHANGED <<pending, df, df_subset, scaler, household_scaled, similarity_matrix,
                   csv, returned, raised, history>>

\* Step 9: cosine_similarity refuses NaN with ValueError.
Similarity ==
    /\ pc = "similarity"
    /\ UNCHANGED <<recommender, web>>
    /\ IF HasNaN(household_scaled) \/ HasNaN(investment_scaled)
       THEN /\ Raise("ValueError")
            /\ UNCHANGED <<pending, locals, rounded>>
       ELSE \E sim \in cosine_similarity(household_scaled, investment_scaled, rounded) :
                /\ rounded' = rounded \cup {[X |-> household_scaled,
                                              Y |-> investment_scaled, sim |-> sim]}
                /\ similarity_matrix' = sim
                /\ df_subset' = WithLabels(df_subset, sim, investment_profiles.index)
                /\ pc' = "save"
                /\ UNCHANGED <<pending, df, scaler, household_scaled,
                               investment_profiles, investment_scaled, csv, returned,
                               raised, history>>

\* Step 10: df_subset.to_csv(output_csv_path, index=False); return df_subset
Save ==
    /\ pc = "save"
    /\ UNCHANGED <<recommender, web, rounded>>
    /\ csv' = <<df_subset>>
    /\ returned' = df_subset
    /\ history' = Append(history, [sheet |-> df, raised |-> "", labels |-> Labels(df_subset),
                                   sim |-> similarity_matrix])
    /\ pc' = "idle"
    /\ UNCHANGED <<pending, locals, raised>>

Next ==
    \/ Call
    \/ Select
    \/ Usage
    \/ Demographics
    \/ FillNa
    \/ Scale
    \/ Profiles
    \/ Similarity
    \/ Save

Spec == Init /\ [][Next]_vars

SpecSeq == InitSeq /\ [][Next]_vars

SpecRaise == InitRaise /\ [][Next]_vars

----------------------------------------------------------------------------
(* The recommendation system as a state machine: the method calls still to  *)
(* come are made one by one on one instance.                                *)

\* __init__: no model is set, no call is made yet.
InitRec ==
    /\ LabelerIdle
    /\ ApiIdle
    /\ ClientIdle
    /\ UploadIdle
    /\ calls \in Runs
    /\ best_model_name = None
    /\ model_pipelines = <<>>
    /\ served = NoCall
    /\ result = Return(None)

\* The next call is a call of method op.
Calling(op) ==
    /\ calls # <<>>
    /\ Head(calls).op = op
    /\ calls' = Tail(calls)
    /\ served' = Head(calls)
    /\ UNCHANGED <<labeler, web>>

\* set_model(model_name, pipeline)
SetModel ==
    /\ Calling("set_model")
    /\ best_model_name' = Head(calls).model_name
    /\ model_pipelines' = [name \in {Head(calls).model_name} |-> Head(calls).pipeline]
    /\ result' = Return(None)

\* get_recommendations(user_id, user_data, df)
GetRecommendations ==
    /\ Calling("get_recommendations")
    /\ result' = get_recommendations(Head(calls).user_id, Head(calls).user_data, Head(calls).df,
                                     best_model_name, model_pipelines)
    /\ UNCHANGED <<best_model_name, model_pipelines>>

\* get_portfolio_allocation(risk_tolerance)
GetPortfolioAllocation ==
    /\ Calling("get_portfolio_allocation")
    /\ result' = get_portfolio_allocation(Head(calls).risk_tolerance)
    /\ UNCHANGED <<best_model_name, model_pipelines>>

\* _get_fallback_recommendations(risk_tolerance)
GetFallbackRecommendations ==
    /\ Calling("_get_fallback_recommendations")
    /\ result' = get_fallback_recommendations(Head(calls).risk_tolerance)
    /\ UNCHANGED <<best_model_name, model_pipelines>>

\* get_risk_tolerance(user_data)
GetRiskTolerance ==
    /\ Calling("get_risk_tolerance")
    /\ result' = Return(Str(get_risk_tolerance(Head(calls).user_data)))
    /\ UNCHANGED <<best_model_name, model_pipelines>>

\* _calculate_suitability_score(product_info, user_data), called with the
\* entry of any product of the catalog.
CalculateSuitabilityScore ==
    /\ calls = <<>>
    /\ served = NoCall
    /\ \E name \in Range(product_names), data \in ScoreUserData :
          /\ served' = [op |-> "_calculate_suitability_score",
                        product_info |-> RiskEntry(name), user_data |-> data]
          /\ result' = Return(Float(calculate_suitability_score(RiskEntry(name), data)))
    /\ UNCHANGED <<calls, best_model_name, model_pipelines, labeler, web>>

NextRec ==
    \/ SetModel
    \/ GetRecommendations
    \/ GetPortfolioAllocation
    \/ GetFallbackRecommendations
    \/ GetRiskTolerance
    \/ CalculateSuitabilityScore

SpecRec == InitRec /\ [][NextRec]_vars

----------------------------------------------------------------------------
(* The API as a state machine: the server handles requests in threads, a    *)
(* handler runs from one statement of the database to the next in one step, *)
(* and the clock moves between the steps.                                   *)

\* A request the server handles: the request, the statement it has come to,
\* the row token_required loaded and the changes of the session.
Thread(r, at, current_user, changes) ==
    [request |-> r, pc |-> at, current_user |-> current_user, changes |-> changes]

\* The sequence of a table: the greatest user_id given.
LastValue(table) ==
    IF table = <<>> THEN 0
    ELSE table[CHOOSE i \in DOMAIN table :
                   \A j \in DOMAIN table : table[j].user_id <= table[i].user_id].user_id

\* The server starts: some table of users, no request served yet; no page
\* of the client has run.
InitApi ==
    /\ LabelerIdle
    /\ RecommenderIdle
    /\ ClientIdle
    /\ UploadIdle
    /\ users \in Databases
    /\ sequence = LastValue(users)
    /\ handling = <<>>
    /\ clock = 0
    /\ steps = 0
    /\ request = NoRequest
    /\ response = NoResponse
    /\ features = NoFeatures

\* A day passes.
Tick ==
    /\ clock < MaxDays
    /\ clock' = clock + 1
    /\ UNCHANGED <<labeler, recommender, client, upload, users, sequence, handling, steps,
                   request, response, features>>

\* A request arrives at the server.
Arrives == steps + Len(handling) < MaxRequests

\* The server answers request r.
Answers(r, answer) ==
    /\ steps' = steps + 1
    /\ request' = r
    /\ response' = answer
    /\ UNCHANGED <<labeler, recommender, client, upload, clock>>

\* The server goes on with request r at the next statement.
GoesOn ==
    /\ UNCHANGED <<labeler, recommender, client, upload, clock>>
    /\ UNCHANGED <<steps, request, response, features, users, sequence>>

\* handling without request i.
Remaining(threads, i) == SubSeq(threads, 1, i - 1) \o SubSeq(threads, i + 1, Len(threads))

\* The server serves request r in one step.
Serving(r, answer) ==
    /\ Arrives
    /\ Answers(r, answer)
    /\ UNCHANGED <<sequence, handling>>

\* token_required denies a request with these headers: such requests are
\* made with one body, the others with every body.
Denied(headers) == token_required(headers, users, clock).denied

\* POST /api/register arrives: the look-up of the username.
PostRegister ==
    \E data \in RegisterBodies :
        LET r == [method |-> "POST", path |-> "/api/register", json |-> data]
            looked == register_username(users, data)
        IN  /\ Arrives
            /\ IF looked.done
               THEN /\ Answers(r, looked.response)
                    /\ features' = NoFeatures
                    /\ UNCHANGED <<users, sequence, handling>>
               ELSE /\ GoesOn
                    /\ handling' = Append(handling, Thread(r, "email", None, << >>))

\* POST /api/register goes on: the look-up of the email.
RegisterEmail ==
    \E i \in DOMAIN handling :
        LET looked == register_email(users, handling[i].request.json)
        IN  /\ handling[i].pc = "email"
            /\ IF looked.done
               THEN /\ Answers(handling[i].request, looked.response)
                    /\ features' = NoFeatures
                    /\ handling' = Remaining(handling, i)
                    /\ UNCHANGED <<users, sequence>>
               ELSE /\ GoesOn
                    /\ handling' = [handling EXCEPT ![i].pc = "insert"]

\* POST /api/register ends: the insert.
RegisterInsert ==
    \E i \in DOMAIN handling, microsecond \in Microseconds :
        LET inserted == register_insert(users, sequence, handling[i].request.json,
                                        Timestamp(clock, microsecond))
        IN  /\ handling[i].pc = "insert"
            /\ Answers(handling[i].request, inserted.response)
            /\ users' = inserted.users
            /\ sequence' = inserted.sequence
            /\ features' = NoFeatures
            /\ handling' = Remaining(handling, i)

\* POST /api/login
PostLogin ==
    \E data \in LoginBodies :
        /\ Serving([method |-> "POST", path |-> "/api/login", json |-> data],
                   login(users, data, clock))
        /\ features' = NoFeatures
        /\ UNCHANGED users

\* GET /api/user
GetUser ==
    \E headers \in Headers(clock) :
        /\ Serving([method |-> "GET", path |-> "/api/user", headers |-> headers],
                   GET_user(headers, users, clock))
        /\ features' = NoFeatures
        /\ UNCHANGED users

\* PUT /api/user/<user_id> arrives: token_required and the handler up to
\* the commit.
PutUser ==
    \E headers \in Headers(clock) :
    \E user_id \in IF Denied(headers) THEN {1} ELSE {1, 2},
       data \in IF Denied(headers) THEN {FullUpdate} ELSE UpdateBodies :
        LET r == [method |-> "PUT", path |-> "/api/user/<user_id>", headers |-> headers,
                  user_id |-> user_id, json |-> data]
            auth == token_required(headers, users, clock)
            updated == update_user(auth.current_user, user_id, data)
        IN  /\ Arrives
            /\ IF auth.denied \/ updated.done
               THEN /\ Answers(r, IF auth.denied THEN auth.response ELSE updated.response)
                    /\ features' = NoFeatures
                    /\ UNCHANGED <<users, sequence, handling>>
               ELSE /\ GoesOn
                    /\ handling' = Append(handling,
                                          Thread(r, "commit", auth.current_user, updated.changes))

\* PUT /api/user/<user_id> ends: the commit.
PutUserCommit ==
    \E i \in DOMAIN handling :
        LET handled == update_user_commit(users, handling[i].current_user.user_id,
                                          handling[i].changes)
        IN  /\ handling[i].pc = "commit"
            /\ Answers(handling[i].request, handled.response)
            /\ users' = handled.users
            /\ features' = NoFeatures
            /\ handling' = Remaining(handling, i)
            /\ UNCHANGED sequence

\* POST /api/recommend
PostRecommend ==
    \E headers \in Headers(clock) :
    \E data \in IF Denied(headers) THEN {FullRecommend} ELSE RecommendBodies,
       indices \in IF Denied(headers) THEN {<<1, 2>>} ELSE Neighbours :
        LET auth == token_required(headers, users, clock)
        IN  /\ Serving([method |-> "POST", path |-> "/api/recommend", headers |-> headers,
                        json |-> data],
                       POST_recommend(headers, data, indices, users, clock))
            /\ features' = IF auth.denied \/ IsNone(auth.current_user) THEN NoFeatures
                           ELSE user_features(auth.current_user, data)
            /\ UNCHANGED users

NextApi ==
    \/ Tick
    \/ PostRegister
    \/ RegisterEmail
    \/ RegisterInsert
    \/ PostLogin
    \/ GetUser
    \/ PutUser
    \/ PutUserCommit
    \/ PostRecommend

SpecApi == InitApi /\ [][NextApi]_vars

----------------------------------------------------------------------------
(* The client as a state machine: one session, whose runs of main come one  *)
(* after another against the API; a run goes from one request to the next   *)
(* in one step, and the clock moves between the steps.                      *)

InitApp ==
    /\ LabelerIdle
    /\ RecommenderIdle
    /\ ClientIdle
    /\ UploadIdle
    /\ users \in Databases
    /\ sequence = LastValue(users)
    /\ handling = <<>>
    /\ clock = 0
    /\ steps = 0
    /\ request = NoRequest
    /\ response = NoResponse
    /\ features = NoFeatures

\* The session after a step that ended as ran.
Session(ran) ==
    /\ token' = ran.token
    /\ user_data' = ran.user_data
    /\ users' = ran.users
    /\ sequence' = IF "sequence" \in DOMAIN ran THEN ran.sequence ELSE sequence
    /\ resume' = ran.resume
    /\ UNCHANGED <<labeler, recommender, upload, clock, handling, request, response, features>>

\* A run of main begins with this choice in the sidebar; its first step ends
\* as ran.
Running(choice, ran) ==
    /\ choice \in Range(menu_options(token))
    /\ steps' = steps + 1
    /\ run' = [choice |-> choice, page |-> Page(choice, token), raised |-> ran.raised,
               requests |-> ran.requests]
    /\ Session(ran)

\* The user chooses a page or uses a widget: no run is going on.
Chooses == resume = Over /\ steps < MaxRuns

\* The last run showed the button 'Refresh Profile Data', the profile form.
RefreshShown ==
    /\ run.page = "show_profile"
    /\ run.raised = ""
    /\ Truthy(user_data)

FormShown ==
    /\ run.page = "show_recommendations"
    /\ run.raised = ""

ShowLogin ==
    \E submit \in BOOLEAN, username \in Usernames, password \in Passwords :
        /\ Chooses
        /\ Page("Login", token) = "show_login"
        /\ Running("Login", show_login(token, user_data, users, clock, submit, username,
                                       password))

ShowRegister ==
    \E submit \in BOOLEAN, username \in Usernames, email \in Emails,
       password \in Passwords, confirm_password \in Passwords, microsecond \in Microseconds :
        /\ Chooses
        /\ Page("Register", token) = "show_register"
        /\ Running("Register",
                   show_register(token, user_data, users, sequence,
                                 Timestamp(clock, microsecond),
                                 submit, username, email, password, confirm_password))

ShowRecommendations ==
    \E age \in FormAges, income \in FormIncomes, risk_tolerance \in FormRiskTolerances,
       submitted \in IF FormShown THEN BOOLEAN ELSE {FALSE},
       button \in IF FormShown THEN BOOLEAN ELSE {FALSE}, indices \in Neighbours :
        /\ Chooses
        /\ Page("Get Recommendations", token) = "show_recommendations"
        /\ Running("Get Recommendations",
                   show_recommendations(token, user_data, users, clock, age, income,
                                        risk_tolerance, submitted, button, indices))

ShowProfile ==
    \E refresh \in IF RefreshShown THEN BOOLEAN ELSE {FALSE} :
        /\ Chooses
        /\ Page("My Profile", token) = "show_profile"
        /\ Running("My Profile", show_profile(token, user_data, users, clock, refresh))

ShowProducts ==
    \E details \in BOOLEAN :
        /\ Chooses
        /\ Page("Financial Products", token) = "show_products"
        /\ Running("Financial Products",
                   show_products(token, user_data, users, clock, details))

Logout ==
    /\ Chooses
    /\ Page("Logout", token) = "logout"
    /\ Running("Logout", logout(token, user_data, users))

\* The run of main goes on with its next request.
Resume ==
    \E indices \in Neighbours :
        LET ran == resumed(resume, token, user_data, users, clock, indices)
        IN  /\ resume.line \notin {0, 10}
            /\ run' = [run EXCEPT !.raised = ran.raised, !.requests = @ \o ran.requests]
            /\ Session(ran)
            /\ UNCHANGED steps

\* st.experimental_rerun(): main runs again at once, with no widget used.
\* The selectbox of the sidebar keeps its choice when the menu is the same
\* and is at its first option when the menu is another.
Rerun ==
    LET choice == IF run.choice \in Range(menu_options(token)) THEN run.choice
                  ELSE menu_options(token)[1]
    IN  /\ resume.line = 10
        /\ Running(choice,
                   IF Page(choice, token) = "show_profile"
                   THEN show_profile(token, user_data, users, clock, FALSE)
                   ELSE show_recommendations(token, user_data, users, clock, Number(30),
                                             Number(500000), Str("Medium"), FALSE, FALSE,
                                             <<>>))

NextApp ==
    \/ Tick
    \/ ShowLogin
    \/ ShowRegister
    \/ ShowRecommendations
    \/ ShowProfile
    \/ ShowProducts
    \/ Logout
    \/ Resume
    \/ Rerun

SpecApp == InitApp /\ [][NextApp]_vars

----------------------------------------------------------------------------
(* Properties.                                                              *)

\* A call has ended and no other has begun.
Finished == pc = "idle" /\ history # <<>>

\* The last call returned a labelled frame.
Completed == Finished /\ raised = ""

\* The sheet of the current call has every expected column.
HasAllCols == Range(relevant_cols) \subseteq Range(df.columns)

LabelOf(i) == df_subset.data[i]["investment_label"]

\* The similarity of row i to the archetype named name.
SimTo(i, name) == similarity_matrix[i][IndexOf(archetypes, name)]

\* C1: every row of a frame the labeler returns has an investment_label that
\* is one of conservative, balanced, aggressive.
C1_LabelIsArchetype ==
    Completed =>
        /\ Len(returned.data) = Len(df.data)
        /\ \A i \in DOMAIN returned.data :
              returned.data[i]["investment_label"] \in {"conservative", "balanced", "aggressive"}

\* A returned frame of three rows that carries all three labels.
C1_Witness ==
    /\ Completed
    /\ Len(returned.data) = 3
    /\ {returned.data[i]["investment_label"] : i \in DOMAIN returned.data}
          = {"conservative", "balanced", "aggressive"}

\* C2: no archetype is strictly more similar to a row than the archetype the
\* row is labelled with.
C2_LabelIsMostSimilar ==
    Completed =>
        \A i \in DOMAIN df_subset.data :
            \A k \in DOMAIN similarity_matrix[i] :
                SimCmp(similarity_matrix[i][k], SimTo(i, LabelOf(i))) <= 0

\* A row labelled aggressive whose similarity to aggressive is strictly above
\* its similarity to each of the other two.
C2_Witness ==
    /\ Completed
    /\ \E i \in DOMAIN df_subset.data :
          /\ LabelOf(i) = "aggressive"
          /\ SimCmp(SimTo(i, "conservative"), SimTo(i, "aggressive")) < 0
          /\ SimCmp(SimTo(i, "balanced"), SimTo(i, "aggressive")) < 0

\* C3: every archetype that comes before a row's label in the order
\* conservative, balanced, aggressive is strictly less similar to the row than
\* the label: among tied archetypes the earliest is taken, and a row equally
\* similar to all three is labelled conservative.
C3_EarliestOfTied ==
    Completed =>
        \A i \in DOMAIN df_subset.data :
            /\ \A k \in 1..(IndexOf(archetypes, LabelOf(i)) - 1) :
                  SimCmp(similarity_matrix[i][k], SimTo(i, LabelOf(i))) < 0
            /\ (/\ SimCmp(SimTo(i, "conservative"), SimTo(i, "balanced")) = 0
                /\ SimCmp(SimTo(i, "balanced"), SimTo(i, "aggressive")) = 0)
                  => LabelOf(i) = "conservative"

\* A row for which balanced and aggressive tie above conservative, labelled
\* balanced.
C3_Witness ==
    /\ Completed
    /\ \E i \in DOMAIN df_subset.data :
          /\ SimCmp(SimTo(i, "balanced"), SimTo(i, "aggressive")) = 0
          /\ SimCmp(SimTo(i, "conservative"), SimTo(i, "balanced")) < 0
          /\ LabelOf(i) = "balanced"

\* The number of rows of the frame whose cell of column c is not missing.
CountPresent(fr, c) == Cardinality({i \in DOMAIN fr.data : ~IsNaN(fr.data[i][c])})

\* C4: once the archetypes are transformed, the scaler's statistics are those
\* of the batch's encoded rows alone, the household rows and the three
\* archetype vectors are both scaled with exactly these statistics, and the
\* archetype constants are the same three vectors, unchanged.
C4_ScalerFitOnBatchOnly ==
    /\ investment_profiles \in {NoProfiles, InvestmentProfiles}
    /\ investment_profiles # NoProfiles =>
          /\ \A c \in Cols :
                /\ scaler[c].n = CountPresent(df_subset, c)
                /\ scaler[c].sum = SumOf(Present(df_subset.data, c), 1)
                /\ scaler[c].sq = SumSqOf(Present(df_subset.data, c), 1)
          /\ \A i \in DOMAIN df_subset.data : \A c \in Cols :
                household_scaled[i][c] = ScaleCell(scaler[c], df_subset.data[i][c])
          /\ \A k \in 1..3 : \A c \in Cols :
                investment_scaled[k][c]
                    = ScaleCell(scaler[c], investment_rows[k][IndexOf(columns, c)])

\* The archetypes are transformed with a scaler fit on three rows of which a
\* column varies and another is constant.
C4_Witness ==
    /\ investment_profiles = InvestmentProfiles
    /\ Len(investment_scaled) = 3
    /\ Len(df_subset.data) = 3
    /\ VarNum(scaler["monthly_income"]).s > 0
    /\ VarNum(scaler["gender"]).s = 0

\* C5: two calls on the same sheet end alike, whatever was labelled between
\* them: the same exception, or the same labels row for row.
C5_SameSheetSameLabels ==
    \A i \in DOMAIN history : \A j \in DOMAIN history :
        history[i].sheet = history[j].sheet =>
            /\ history[i].raised = history[j].raised
            /\ history[i].labels = history[j].labels

\* A sheet labelled, another sheet labelled, the first sheet labelled again.
C5_Witness ==
    /\ Len(history) = 3
    /\ history[1].sheet = history[3].sheet
    /\ history[1].sheet # history[2].sheet
    /\ history[1].raised = ""
    /\ history[2].raised = ""
    /\ Len(history[3].labels) >= 2

KnownDemographics(i) ==
    /\ df.data[i]["A13"] \in {"Male", "Female"}
    /\ df.data[i]["A08"] \in {"Rural", "Urban"}

\* C7: a call on a sheet of exactly one row either raises DegenerateBatchError
\* or returns the row with one of the three labels (stated for a row whose
\* gender and area type are of the vocabulary, so that the row's being alone
\* is all that can go wrong).
C7_OneRowNeverCrashes ==
    (Finished /\ HasAllCols /\ Len(df.data) = 1 /\ KnownDemographics(1)) =>
        \/ raised = "DegenerateBatchError"
        \/ /\ raised = ""
           /\ Len(returned.data) = 1
           /\ returned.data[1]["investment_label"] \in Range(archetypes)

\* The usage answer of row i in the j-th usage column, as read and as encoded.
RawUsage(i, j) == df.data[i][relevant_cols[4 + j]]

EncUsage(i, j) == df_subset.data[i][behavior_cols[j]]

\* The usage columns of df_subset are encoded.
UsageEncoded == df_subset # NoFrame /\ pc # "usage"

\* C8: a usage answer is encoded 'Never used' to 0, 'Used to use' to 1,
\* 'Currently use' to 2 and anything else, a missing answer too, to 0.
C8_UsageEncoding ==
    UsageEncoded =>
        \A i \in DOMAIN df_subset.data : \A j \in 1..Len(behavior_cols) :
            /\ RawUsage(i, j) = "Never used" => EncUsage(i, j) = <<0>>
            /\ RawUsage(i, j) = "Used to use" => EncUsage(i, j) = <<1 * Unit>>
            /\ RawUsage(i, j) = "Currently use" => EncUsage(i, j) = <<2 * Unit>>
            /\ RawUsage(i, j) \notin {"Never used", "Used to use", "Currently use"}
                  => EncUsage(i, j) = <<0>>
            /\ EncUsage(i, j) \in {<<0>>, <<1 * Unit>>, <<2 * Unit>>}

\* An encoded row that had an unknown answer, a missing one and the three
\* known ones.
C8_Witness ==
    /\ UsageEncoded
    /\ \E i \in DOMAIN df_subset.data :
          {"Sometimes", "NaN", "Never used", "Used to use", "Currently use"}
              \subseteq {RawUsage(i, j) : j \in 1..Len(behavior_cols)}

\* gender and area_type of df_subset are encoded.
DemographicsEncoded == df_subset # NoFrame /\ pc \notin {"usage", "demographics"}

\* C9: gender is encoded Male to 0 and Female to 1, area_type Rural to 0 and
\* Urban to 1, and any other value of either to NaN.
C9_DemographicsEncoding ==
    DemographicsEncoded =>
        \A i \in DOMAIN df_subset.data :
            /\ df_subset.data[i]["gender"] =
                  (IF df.data[i]["A13"] = "Male" THEN <<0>>
                   ELSE IF df.data[i]["A13"] = "Female" THEN <<1 * Unit>>
                   ELSE <<>>)
            /\ df_subset.data[i]["area_type"] =
                  (IF df.data[i]["A08"] = "Rural" THEN <<0>>
                   ELSE IF df.data[i]["A08"] = "Urban" THEN <<1 * Unit>>
                   ELSE <<>>)

\* An encoded frame with a differently cased gender, a missing area type and
\* a row of known gender and area type.
C9_Witness ==
    /\ DemographicsEncoded
    /\ \E i \in DOMAIN df.data : df.data[i]["A13"] = "female"
    /\ \E i \in DOMAIN df.data : df.data[i]["A08"] = "NaN"
    /\ \E i \in DOMAIN df.data : df.data[i]["A13"] = "Male" /\ df.data[i]["A08"] = "Rural"

\* Row i of the sheet has a usage answer outside the vocabulary.
UnknownUsage(i) ==
    \E j \in 1..Len(behavior_cols) :
        RawUsage(i, j) \notin {"Never used", "Used to use", "Currently use"}

\* C10 as stated: a sheet with a categorical value outside the vocabulary, in
\* a usage column, in gender or in area_type, is labelled all the same (stated
\* for a sheet with an income and an expenditure, so that the unknown value is
\* all that can go wrong).
C10_UnknownCategoricalIsLabelled ==
    (/\ Finished
     /\ HasAllCols
     /\ \E i \in DOMAIN df.data : UnknownUsage(i) \/ ~KnownDemographics(i)
     /\ \A c \in {"B3Ii", "U23"} : \E i \in DOMAIN df.data : ~IsNaN(df.data[i][c]))
        => /\ raised = ""
           /\ \A i \in DOMAIN returned.data :
                 returned.data[i]["investment_label"] \in Range(archetypes)

\* C10, amended: an unknown usage answer is defaulted to 0 and never makes
\* the call fail: a sheet of at least one row, with known gender and area
\* type in every row and at least one income and one expenditure, is labelled
\* whatever its usage answers are.  An unknown gender or area type is not
\* defaulted: the call fails with ValueError and labels nothing.
C10_UnknownUsageDefaultedUnknownDemographicsFail ==
    (Finished /\ HasAllCols) =>
        /\ (\E i \in DOMAIN df.data : ~KnownDemographics(i)) =>
              /\ raised = "ValueError"
              /\ returned = NoFrame
              /\ similarity_matrix = <<>>
        /\ (/\ Len(df.data) >= 1
            /\ \A i \in DOMAIN df.data : KnownDemographics(i)
            /\ \A c \in {"B3Ii", "U23"} : \E i \in DOMAIN df.data : ~IsNaN(df.data[i][c]))
              => /\ raised = ""
                 /\ \A i \in DOMAIN returned.data :
                       /\ returned.data[i]["investment_label"] \in Range(archetypes)
                       /\ \A j \in 1..Len(behavior_cols) :
                             RawUsage(i, j) \in {"Sometimes", "NaN"}
                                 => returned.data[i][behavior_cols[j]] = <<0>>

\* A sheet with an unknown usage answer has been labelled.
C10_Witness ==
    /\ Completed
    /\ \E i \in DOMAIN df.data : UnknownUsage(i)

\* The k-th smallest of the values v[1], ..., v[n], by rank.
Kth(v, k) ==
    CHOOSE x \in Range(v) :
        /\ Cardinality({i \in DOMAIN v : v[i] < x}) < k
        /\ Cardinality({i \in DOMAIN v : v[i] <= x}) >= k

\* The median of the values of sheet column c that are not missing: the
\* middle one, or the mean of the two middle ones; missing when there is none.
BatchMedian(c) ==
    LET v == Present(df.data, c)
        n == Len(v)
    IN  IF n = 0 THEN NaN ELSE <<(Kth(v, (n + 1) \div 2) + Kth(v, n \div 2 + 1)) \div 2>>

\* monthly_income and monthly_expenditure of df_subset are imputed.
Imputed == df_subset # NoFrame /\ pc \notin {"usage", "demographics", "fillna"}

\* C11: after the imputation every missing monthly_income (monthly_expenditure)
\* of the batch holds the median of the values of that column that are not
\* missing in the sheet of the current call, and every value that is not
\* missing is the one read from the sheet, whatever the calls before were on.
C11_MissingFilledWithBatchMedian ==
    Imputed =>
        \A i \in DOMAIN df_subset.data :
            /\ df_subset.data[i]["monthly_income"] =
                  (IF IsNaN(df.data[i]["B3Ii"]) THEN BatchMedian("B3Ii") ELSE df.data[i]["B3Ii"])
            /\ df_subset.data[i]["monthly_expenditure"] =
                  (IF IsNaN(df.data[i]["U23"]) THEN BatchMedian("U23") ELSE df.data[i]["U23"])

\* A missing income is filled with the mean of the batch's two incomes, after
\* a call that saved a frame of another median income, itself imputed.
C11_Witness ==
    /\ Imputed
    /\ csv # <<>>
    /\ Len(history) >= 1
    /\ \E i \in DOMAIN history[1].sheet.data : IsNaN(history[1].sheet.data[i]["B3Ii"])
    /\ Len(Present(df.data, "B3Ii")) = 2
    /\ \E i \in DOMAIN df.data :
          /\ IsNaN(df.data[i]["B3Ii"])
          /\ df_subset.data[i]["monthly_income"] # NaN
          /\ df_subset.data[i]["monthly_income"] # median(csv[1].data, "monthly_income")
          /\ df_subset.data[i]["monthly_income"] \notin {df.data[k]["B3Ii"] : k \in DOMAIN df.data}

\* What sheet row i holds under the renamed column c once it is encoded and
\* imputed.
EncodedCell(i, c) ==
    LET raw == df.data[i][relevant_cols[IndexOf(columns, c)]]
    IN  CASE c = "area_type" -> (IF raw = "Rural" THEN <<0>> ELSE IF raw = "Urban" THEN <<Unit>> ELSE NaN)
          [] c = "gender" -> (IF raw = "Male" THEN <<0>> ELSE IF raw = "Female" THEN <<Unit>> ELSE NaN)
          [] c \in {"monthly_income", "monthly_expenditure"} ->
                (IF IsNaN(raw) THEN BatchMedian(relevant_cols[IndexOf(columns, c)]) ELSE raw)
          [] OTHER -> (IF raw = "Used to use" THEN <<Unit>>
                       ELSE IF raw = "Currently use" THEN <<2 * Unit>> ELSE <<0>>)

\* C12: the frame a call returns, which is also the frame it saves, has the
\* fourteen renamed columns in their fixed order followed by investment_label
\* and nothing else, and one row per row of the sheet in the sheet's order:
\* its i-th row is the sheet's i-th row encoded, with the label of the i-th
\* row of the similarity matrix.
C12_OneRowPerInputRowInOrder ==
    Completed =>
        /\ returned.columns = columns \o <<"investment_label">>
        /\ Len(returned.columns) = 15
        /\ Len(returned.data) = Len(df.data)
        /\ \A i \in DOMAIN returned.data :
              /\ DOMAIN returned.data[i] = Range(returned.columns)
              /\ \A c \in Cols : returned.data[i][c] = EncodedCell(i, c)
              /\ \A k \in 1..3 :
                    SimCmp(similarity_matrix[i][k],
                           SimTo(i, returned.data[i]["investment_label"])) <= 0
        /\ csv = <<returned>>

\* A returned frame of three rows from three different sheet rows, the first
\* and the last of which differ in their fields and in their labels, taken
\* from a sheet that had one more column.
C12_Witness ==
    /\ Completed
    /\ Len(returned.data) = 3
    /\ Cardinality({df.data[i] : i \in DOMAIN df.data}) = 3
    /\ returned.data[1]["investment_label"] # returned.data[3]["investment_label"]
    /\ returned.data[1]["monthly_income"] # returned.data[3]["monthly_income"]

\* C13 as stated: a call changes no state that outlives it; no file is created
\* or overwritten.
C13_NoFileCreatedOrOverwritten == [][csv' = csv]_vars

\* C13, amended: the file at output_csv_path is the one state that outlives a
\* call.  A call that succeeds creates or overwrites it, in its last step, with
\* the labelled frame it returns; a call that fails leaves it as it was.
\* Nothing else is carried from a call to the next: each call starts from a
\* new frame of locals and a new scaler, and ends as the first call on its
\* sheet ended.
C13_OnlyTheSavedFileOutlivesTheCall ==
    /\ [][/\ csv' # csv => (pc = "save" /\ pc' = "idle" /\ raised' = ""
                              /\ csv' = <<returned'>> /\ returned' = df_subset)
          /\ raised' # "" => csv' = csv
          /\ (pc = "save" /\ pc' = "idle") => csv' = <<df_subset>>
          /\ (pc = "idle" /\ pc' # "idle") =>
                 /\ df_subset' = NoFrame
                 /\ household_scaled' = <<>>
                 /\ similarity_matrix' = <<>>
          /\ (pc = "scale" /\ pc' = "profiles") =>
                 scaler' = Fit(UnfittedScaler, df_subset.data)]_vars
    /\ [](\A i \in DOMAIN history : \A j \in DOMAIN history :
              history[i].sheet = history[j].sheet =>
                  history[i].raised = history[j].raised /\ history[i].labels = history[j].labels)

\* A call has saved a frame, a second call on another sheet has failed and
\* left the file as the first call wrote it, and a third call has overwritten
\* it.
C13_Witness ==
    /\ Len(history) = 3
    /\ pc = "idle"
    /\ history[1].raised = ""
    /\ history[2].raised # ""
    /\ history[3].raised = ""
    /\ history[3].sheet # history[1].sheet
    /\ csv = <<returned>>
    /\ Labels(csv[1]) = history[3].labels
    /\ Labels(csv[1]) # history[1].labels

\* C14: when a batch is labelled and then the same batch with its first
\* household's income or invest_forex usage raised, nothing else changed, the
\* household's similarity to the aggressive archetype is not lower the second
\* time.
C14_RaisingNeverLowersAggressive ==
    (/\ Len(history) = 2
     /\ history[1].raised = ""
     /\ history[2].raised = "")
        => SimCmp(history[1].sim[1][IndexOf(archetypes, "aggressive")],
                  history[2].sim[1][IndexOf(archetypes, "aggressive")]) <= 0

\* Row i of a sheet is the high earner of the worked example: income 90000,
\* expenditure 30000, every product currently used.
IsHighEarner(row) ==
    /\ row["B3Ii"] = Num(90000)
    /\ row["U23"] = Num(30000)
    /\ \A j \in 1..Len(behavior_cols) : row[relevant_cols[4 + j]] = "Currently use"

\* C15: in every batch that is labelled, a household with income 90000,
\* expenditure 30000 and all ten usage answers 'Currently use' (level 2) is
\* labelled aggressive, the batch made of that household alone included.
C15_HighEarnerIsAggressive ==
    \A n \in DOMAIN history :
        history[n].raised = "" =>
            \A i \in DOMAIN history[n].sheet.data :
                IsHighEarner(history[n].sheet.data[i]) => history[n].labels[i] = "aggressive"

\* The urban woman of the worked example: income 40000, expenditure 35000,
\* no product ever used.
IsUrbanNonUser(row) ==
    /\ row["A08"] = "Urban"
    /\ row["A13"] = "Female"
    /\ row["B3Ii"] = Num(40000)
    /\ row["U23"] = Num(35000)
    /\ \A j \in 1..Len(behavior_cols) : row[relevant_cols[4 + j]] = "Never used"

\* C16: in every batch that is labelled, an urban female household with income
\* 40000, expenditure 35000 and all ten usage answers 'Never used' (level 0)
\* is labelled conservative.
C16_UrbanNonUserIsConservative ==
    \A n \in DOMAIN history :
        history[n].raised = "" =>
            \A i \in DOMAIN history[n].sheet.data :
                IsUrbanNonUser(history[n].sheet.data[i]) => history[n].labels[i] = "conservative"

----------------------------------------------------------------------------
(* Properties of the recommendation system.                                 *)

\* The last call made was get_recommendations.
ServedRecommendations == served.op = "get_recommendations"

\* The call names a user of the dataset and gives no user data.
LooksUpUser ==
    /\ IsNone(served.user_data)
    /\ ~IsNone(served.user_id)
    /\ ~IsNone(served.df)

\* The user data the call works on: the user's row of the dataset, or the
\* user data given; None when there is none.
UserData ==
    IF ~LooksUpUser THEN served.user_data
    ELSE IF served.user_id.n \in DOMAIN served.df.entries
    THEN served.df.entries[served.user_id.n] ELSE None

\* The keys of the dictionary get_recommendations returns.
RecommendationKeys ==
    {"user_segment", "risk_tolerance", "segment_recommendations", "risk_recommendations",
     "detailed_products", "investment_probability"}

\* The value returned is the emergency dictionary.
IsEmergency(value) ==
    /\ value.t = "dict"
    /\ value.entries.user_segment = "balanced_investor"
    /\ value.entries.segment_recommendations = <<"medium_risk">>
    /\ value.entries.risk_recommendations = <<"Government Bonds", "Unit Trusts">>
    /\ Len(value.entries.detailed_products) = 1
    /\ value.entries.detailed_products[1].name = "Government Bonds (Treasury Bonds)"
    /\ value.entries.detailed_products[1].suitability_score = 8000
    /\ value.entries.investment_probability = Float(6500)

\* The model prediction (step 3 of the main path) is made and raises.
PredictionFails ==
    /\ best_model_name # None
    /\ model_pipelines[best_model_name].kind = "raises"

\* The risk tolerance given is one no dict can be looked up under, so that the
\* risk-based lookup (step 2 of the main path) raises.
LookupFails ==
    /\ UserData.t = "dict"
    /\ "risk_tolerance" \in DOMAIN UserData.entries
    /\ UserData.entries["risk_tolerance"].t = "list"

\* C17 as stated: get_recommendations returns, and never None: the empty list
\* without user data, else a dictionary of the six keys, which is the
\* emergency dictionary whenever a step of the main path fails.
C17_EmergencyWheneverAStepFails ==
    ServedRecommendations =>
        /\ result.raised = ""
        /\ ~IsNone(result.value)
        /\ IsNone(UserData) => result.value = List(<<>>)
        /\ ~IsNone(UserData) =>
              /\ result.value.t = "dict"
              /\ DOMAIN result.value.entries = RecommendationKeys
              /\ (UserData.t # "dict" \/ LookupFails \/ PredictionFails)
                    => IsEmergency(result.value)

\* C17, amended: get_recommendations returns, and never None: the empty list
\* without user data (none given and no user of the dataset named), else a
\* dictionary of the six keys.  It is the emergency dictionary exactly when
\* an exception leaves the main path: when the user data is no dict, or when
\* the risk-based lookup gives no product (the fallback lookup then raises).
\* A model prediction that raises is handled inside the main path: the
\* dictionary is the main one, with a default investment_probability.
C17_NeverNoneNeverRaises ==
    ServedRecommendations =>
        /\ result.raised = ""
        /\ ~IsNone(result.value)
        /\ IsNone(UserData) => result.value = List(<<>>)
        /\ ~IsNone(UserData) =>
              /\ result.value.t = "dict"
              /\ DOMAIN result.value.entries = RecommendationKeys
              /\ (UserData.t # "dict" \/ LookupFails) => IsEmergency(result.value)
              /\ ~(UserData.t # "dict" \/ LookupFails) =>
                    /\ ~IsEmergency(result.value)
                    /\ Len(result.value.entries.detailed_products) \in 3..5
                    /\ best_model_name = None =>
                          IsNone(result.value.entries.investment_probability)
                    /\ best_model_name # None =>
                          result.value.entries.investment_probability.t = "float"

\* The model is set, its prediction raises, and the dictionary returned is
\* the main one, with five products and a probability.
C17_Witness ==
    /\ ServedRecommendations
    /\ PredictionFails
    /\ result.raised = ""
    /\ result.value.t = "dict"
    /\ ~IsEmergency(result.value)
    /\ Len(result.value.entries.detailed_products) = 5
    /\ result.value.entries.investment_probability.t = "float"

\* The level whose list or table a risk tolerance is to get: its own for
\* 'Low', 'Medium' and 'High', 'Medium' for anything else.
LevelOf(risk_tolerance) ==
    IF IsStr(risk_tolerance) /\ risk_tolerance.v \in {"Low", "Medium", "High"}
    THEN risk_tolerance.v ELSE "Medium"

\* C18: _get_fallback_recommendations returns, without raising, the three
\* fallback products of the risk tolerance given, those of 'Medium' for a risk
\* tolerance that is none of the three levels; and a call of
\* get_recommendations whose risk-based lookup gives no product returns a main
\* dictionary that ranks fallback products, not the emergency dictionary.
C18_FallbackListReturned ==
    /\ served.op = "_get_fallback_recommendations" =>
          /\ result.raised = ""
          /\ result.value = fallback_products[LevelOf(served.risk_tolerance)]
          /\ Len(result.value) = 3
    /\ (ServedRecommendations /\ LookupFails) =>
          /\ result.raised = ""
          /\ ~IsEmergency(result.value)

\* C19: get_portfolio_allocation returns the Low table for 'Low', the High
\* table for 'High', and the Medium table for 'Medium' and for a text that is
\* none of the three.
C19_AllocationOfGivenLevel ==
    (served.op = "get_portfolio_allocation" /\ IsStr(served.risk_tolerance)) =>
        /\ result.raised = ""
        /\ result.value = allocations[LevelOf(served.risk_tolerance)]

\* C20: get_recommendations reports the risk tolerance given in the user data
\* when there is one and, when the key is absent or its value is None or the
\* empty text, the level get_risk_tolerance derives: High for a score of 4 or
\* more, Medium for 2 or 3, Low below 2 (stated for user data whose age and
\* income are numbers and whose experience is a text, so that the score is
\* defined).
C20_RiskToleranceGivenOrDerived ==
    (/\ ServedRecommendations
     /\ UserData.t = "dict"
     /\ ~LookupFails
     /\ IsNumber(Get(UserData, "age", Number(30)))
     /\ IsNumber(Get(UserData, "monthly_income", Number(30000)))
     /\ IsStr(Get(UserData, "investment_experience", Str("Beginner"))))
        => LET given == Get(UserData, "risk_tolerance", None)
               score == RiskScore(Get(UserData, "age", Number(30)).n,
                                  Get(UserData, "monthly_income", Number(30000)).n,
                                  Get(UserData, "investment_experience", Str("Beginner")).v)
           IN  result.value.entries.risk_tolerance =
                  (IF ~IsNone(given) /\ given # Str("") THEN given
                   ELSE IF score >= 4 THEN Str("High")
                   ELSE IF score >= 2 THEN Str("Medium")
                   ELSE Str("Low"))


\* The call served is one of _calculate_suitability_score.
ServedScore == served.op = "_calculate_suitability_score"

\* The user's risk level as _calculate_suitability_score reads it.
UserRisk == Get(served.user_data, "risk_tolerance", Str("Medium"))

\* The user's or the product's risk level is none of Low, Medium, High.
OutsideLevels ==
    \/ ~IsStr(UserRisk)
    \/ RiskIndex(UserRisk.v) = 0
    \/ RiskIndex(served.product_info.risk_level) = 0

\* The user's and the product's risk level are equal.
SameLevel == IsStr(UserRisk) /\ UserRisk.v = served.product_info.risk_level

\* A score in ten-thousandths lies in [0, 1].
InUnit(x) == 0 <= x /\ x <= 10000

\* Every entry of detailed_products returned has a score in [0, 1].
DetailedScoresInUnit ==
    (ServedRecommendations /\ result.value.t = "dict") =>
        \A k \in DOMAIN result.value.entries.detailed_products :
            InUnit(result.value.entries.detailed_products[k].suitability_score)

\* C21 as stated: _calculate_suitability_score returns a number in [0, 1],
\* and 0.75 whenever the user's or the product's risk level is none of Low,
\* Medium, High; every entry of detailed_products has a score in [0, 1].
C21_ScoreInUnitAndDefaultOutsideLevels ==
    /\ ServedScore =>
          /\ result.raised = ""
          /\ InUnit(result.value.x)
          /\ (served.user_data.t = "dict" /\ OutsideLevels) => result.value.x = 7500
    /\ DetailedScoresInUnit

\* C21, amended: _calculate_suitability_score returns a number in [0, 1];
\* with a user or product risk level that is none of Low, Medium, High it
\* returns 0.75 when the two levels differ, and the score computed as for any
\* other pair of equal levels when they are equal; every entry of
\* detailed_products has a score in [0, 1].
C21_ScoreInUnitAndDefaultForUnequalOutsideLevels ==
    /\ ServedScore =>
          /\ result.raised = ""
          /\ InUnit(result.value.x)
          /\ (served.user_data.t = "dict" /\ OutsideLevels /\ ~SameLevel) =>
                result.value.x = 7500
          /\ (/\ served.user_data.t = "dict" /\ OutsideLevels /\ SameLevel
              /\ IsNumber(Get(served.user_data, "age", Number(30)))
              /\ IsNumber(Get(served.user_data, "monthly_income", Number(30000)))) =>
                result.value.x =
                    Min(10000,
                        SuitabilitySum(UserRisk.v, served.product_info.risk_level,
                                       served.product_info.liquidity,
                                       Get(served.user_data, "age", Number(30)).n,
                                       Get(served.user_data, "monthly_income", Number(30000)).n,
                                       Get(served.user_data, "investment_horizon", Str("")).v))
    /\ DetailedScoresInUnit

\* A user of risk tolerance 'Very High' was scored 0.75 against a product of
\* risk level High.
C21_Witness ==
    /\ ServedScore
    /\ served.user_data.t = "dict"
    /\ UserRisk = Str("Very High")
    /\ served.product_info.risk_level = "High"
    /\ result = Return(Float(7500))

\* The step answers a request.
ServesRequest == steps' = steps + 1

\* The step answers a request as it arrives.
AnswersAtOnce == ServesRequest /\ handling' = handling

\* The step takes a request up and answers it in a later one.
TakesUp == Len(handling') = Len(handling) + 1

TakenUp == handling'[Len(handling')]

\* The step answers the request the server was handling as thread i.
AnswersThread(i) ==
    /\ ServesRequest
    /\ request' = handling[i].request
    /\ handling' = Remaining(handling, i)

\* The request is one to an endpoint behind token_required.
Protected(r) ==
    r.path \in {"/api/user", "/api/user/<user_id>", "/api/recommend"}

\* The Authorization header reads 'Bearer <token>'.
WellFormed(value) ==
    /\ Len(value) >= 3
    /\ value[1] = Word("Bearer")
    /\ value[2] = Space
    /\ \A i \in 3..Len(value) : value[i] # Space

\* The request carries no Authorization header, a malformed one, or a token
\* that does not verify at time now.
Unauthenticated(r, now) ==
    \/ "Authorization" \notin DOMAIN r.headers
    \/ ~WellFormed(r.headers["Authorization"])
    \/ jwt_decode(SubSeq(r.headers["Authorization"], 3, Len(r.headers["Authorization"])),
                  SECRET_KEY, now).raised # ""

\* C22: a request to a token-protected endpoint that carries no Authorization
\* header, a malformed Authorization header or a token that does not verify
\* when it arrives is answered with 401, and the handler is not executed: no
\* user's data is returned, no user is changed, and the request is not taken
\* up for a commit.
C22_UnauthenticatedAnsweredWith401 ==
    [][/\ (AnswersAtOnce /\ Protected(request') /\ Unauthenticated(request', clock)) =>
             /\ response'.status = 401
             /\ response'.body.t = "str"
             /\ users' = users
             /\ features' = NoFeatures
       /\ (TakesUp /\ Protected(TakenUp.request)) =>
             ~Unauthenticated(TakenUp.request, clock)]_vars

\* The request is served for a user: its token verifies and names a user of
\* the table.
Authenticated(r, now, table) ==
    /\ ~Unauthenticated(r, now)
    /\ "sub" \in DOMAIN r.headers["Authorization"][3].payload
    /\ ~IsNone(QueryGet(table, r.headers["Authorization"][3].payload.sub))

\* The id of the user the token names.
TokenUser(r) == r.headers["Authorization"][3].payload.sub

\* Row new differs from row old in age, income and risk_tolerance at most.
OnlyProfileChanged(old, new) ==
    new = [old EXCEPT !.age = new.age, !.income = new.income,
                      !.risk_tolerance = new.risk_tolerance]

\* C23: PUT /api/user/<user_id> changes only the age, income and
\* risk_tolerance of the authenticated user's own record: with a user_id that
\* is not the token's user it answers 403 and changes nothing, and in every
\* case no other user's record, no username, email or password is modified,
\* and no row is added or removed.  The request goes on to its commit only
\* with a token that verifies when it arrives and names the user of the path,
\* and the commit changes that user's row only.
C23_UpdateChangesOwnProfileOnly ==
    [][/\ (TakesUp /\ TakenUp.request.path = "/api/user/<user_id>") =>
             /\ Authenticated(TakenUp.request, clock, users)
             /\ TakenUp.request.user_id = TokenUser(TakenUp.request)
             /\ TakenUp.current_user.user_id = TokenUser(TakenUp.request)
             /\ users' = users
       /\ (ServesRequest /\ request'.path = "/api/user/<user_id>") =>
             /\ Len(users') = Len(users)
             /\ \A i \in DOMAIN users :
                   /\ OnlyProfileChanged(users[i], users'[i])
                   /\ users'[i] # users[i] =>
                         /\ ~AnswersAtOnce
                         /\ users[i].user_id = TokenUser(request')
                         /\ request'.user_id = TokenUser(request')
             /\ (AnswersAtOnce /\ Authenticated(request', clock, users)
                 /\ request'.user_id # TokenUser(request')) =>
                   (response'.status = 403 /\ users' = users)]_vars

\* User 1 has updated the profile with a body that also carries a username:
\* age, income and risk tolerance are those of the body, the username is kept.
C23_Witness ==
    /\ request.path = "/api/user/<user_id>"
    /\ response.status = 200
    /\ "username" \in DOMAIN request.json.entries
    /\ Len(users) = 2
    /\ users[1].age = Number(45)
    /\ users[1].income = Number(70000)
    /\ users[1].risk_tolerance = Str("High")
    /\ users[1].username = Str("amina")
    /\ users[2].age = None

\* No two stored users share a username, an email or a user_id.
UsersUnique ==
    \A i, j \in DOMAIN users :
        i # j => /\ users[i].username # users[j].username
                 /\ users[i].email # users[j].email
                 /\ users[i].user_id # users[j].user_id

\* The body's username, the body's email, is that of a stored user.
UsernameStored(data, table) ==
    /\ "username" \in DOMAIN data.entries
    /\ \E i \in DOMAIN table : table[i].username = data.entries.username

EmailStored(data, table) ==
    /\ "username" \in DOMAIN data.entries
    /\ "email" \in DOMAIN data.entries
    /\ \E i \in DOMAIN table : table[i].email = data.entries.email

\* C24: after any sequence of register requests no two stored users share a
\* username or an email.  A registration whose username is stored when it
\* arrives is answered with 400 at once, and only one whose username is not
\* is taken up; one whose email is stored when it is looked up is answered
\* with 400, and only one whose email is not goes on to the insert; neither
\* creates a user.  A registration answered with 201 adds exactly one user,
\* that of the body; any other creates none.  The rows stored stay, with
\* their usernames and emails, so that a username or an email stored when
\* the request arrives is stored when it is looked up.
C24_RegistrationKeepsUsersUnique ==
    /\ []UsersUnique
    /\ [][/\ \A i \in DOMAIN users :
                /\ i \in DOMAIN users'
                /\ users'[i].username = users[i].username
                /\ users'[i].email = users[i].email
          /\ (TakesUp /\ TakenUp.request.path = "/api/register") =>
                ~UsernameStored(TakenUp.request.json, users)
          /\ \A i \in DOMAIN handling :
                (handling[i].pc = "email" /\ handling' = [handling EXCEPT ![i].pc = "insert"]) =>
                    ~EmailStored(handling[i].request.json, users)
          /\ (ServesRequest /\ request'.path = "/api/register") =>
                /\ (AnswersAtOnce /\ UsernameStored(request'.json, users)) =>
                      (response'.status = 400 /\ users' = users)
                /\ \A i \in DOMAIN handling :
                      (AnswersThread(i) /\ handling[i].pc = "email"
                       /\ EmailStored(request'.json, users)) =>
                          (response'.status = 400 /\ users' = users)
                /\ response'.status = 201 =>
                      /\ Len(users') = Len(users) + 1
                      /\ SubSeq(users', 1, Len(users)) = users
                      /\ users'[Len(users')].username = request'.json.entries.username
                      /\ users'[Len(users')].email = request'.json.entries.email
                /\ response'.status # 201 => users' = users]_vars

\* A registration with a new username and the email of a stored user was
\* answered with 400, after one that was stored.
C24_Witness ==
    /\ request.path = "/api/register"
    /\ response = Response(400, Str("Email already exists"))
    /\ request.json.entries.username = Str("carol")
    /\ Len(users) = 1
    /\ users[1].username = Str("amina")
    /\ users[1].email = request.json.entries.email

\* The stored profile of the user the request's token names.
StoredUser == QueryGet(users, TokenUser(request))

\* C27: POST /api/recommend builds each feature from the request body when
\* the body gives it and otherwise from the user's stored profile: the income
\* used is the request's income whenever one is given, the stored income
\* otherwise, and 500000 only when neither is available; these are the
\* features of every request answered with recommendations.
C27_FeaturesFromBodyElseProfile ==
    (request.path = "/api/recommend" /\ response.status = 200) =>
        /\ features.age = Get(request.json, "age", StoredUser.age)
        /\ features.income =
              IF "income" \in DOMAIN request.json.entries THEN request.json.entries.income
              ELSE IF Truthy(StoredUser.income) THEN ToFloat(StoredUser.income)
              ELSE Number(500000)

\* The step begins a run of main: the user chooses a page or uses a widget,
\* or st.experimental_rerun() runs main again.
RunsPage == steps' = steps + 1

\* C25: across any sequence of runs of main, Get Recommendations, My Profile
\* and Financial Products are shown only while the session holds a token,
\* Login and Register only while it holds none; a token is set only by a
\* login answered with 200, and it is the token of that answer; choosing
\* Logout clears the token and the cached user_data.
C25_PagesFollowTheToken ==
    [][/\ token' # token => RunsPage
       /\ RunsPage =>
          /\ run'.page \in {"show_recommendations", "show_profile", "show_products"} =>
                Truthy(token)
          /\ run'.choice \in {"Get Recommendations", "My Profile", "Financial Products",
                              "Logout"} => Truthy(token)
          /\ run'.page \in {"show_login", "show_register"} => ~Truthy(token)
          /\ run'.choice \in {"Login", "Register"} => ~Truthy(token)
          /\ (token' # token /\ Truthy(token')) =>
                /\ run'.page = "show_login"
                /\ run'.requests[1].path = "/api/login"
                /\ run'.requests[1].status = 200
                /\ token' = login(users, run'.requests[1].json, clock).body.entries.token
          /\ (token' # token /\ ~Truthy(token')) => run'.choice = "Logout"
          /\ run'.choice = "Logout" => (token' = None /\ user_data' = Dict(<< >>))]_vars

\* A session that logged in, loaded the profile and was shown Get
\* Recommendations by the rerun has chosen Logout: it holds no token and no
\* user_data.
C25_Witness ==
    /\ steps >= 3
    /\ run.choice = "Logout"
    /\ run.page = "logout"
    /\ token = None
    /\ user_data = Dict(<< >>)

\* The profile form was submitted in the last run and the update answered
\* with 200.
ProfileUpdated ==
    /\ run.page = "show_recommendations"
    /\ \E k \in DOMAIN run.requests :
          run.requests[k].method = "PUT" /\ run.requests[k].status = 200

\* The update sent in the last run.
UpdateSent == run.requests[CHOOSE k \in DOMAIN run.requests : run.requests[k].method = "PUT"]

\* C26: after a successful profile update the cached user_data still holds
\* the user's profile with user_id, so that the recommendation request of the
\* same run, and any later request of the session, is sent with the user's id
\* and the updated age, income and risk_tolerance.  No run reaches an update:
\* show_recommendations raises before the profile form for every profile
\* that GET /api/user answers with.
C26_UserDataKeptAfterUpdate ==
    ProfileUpdated =>
        /\ user_data.t = "dict"
        /\ "user_id" \in DOMAIN user_data.entries
        /\ user_data.entries.user_id = UpdateSent.user_id
        /\ user_data.entries.age = UpdateSent.json.entries.age
        /\ user_data.entries.income = UpdateSent.json.entries.income
        /\ user_data.entries.risk_tolerance = UpdateSent.json.entries.risk_tolerance
        /\ resume = Over =>
              /\ run.requests[Len(run.requests)].path = "/api/recommend"
              /\ run.requests[Len(run.requests)].json = user_data

----------------------------------------------------------------------------
(* The handler recommend_investments of main.py, with the constants written *)
(* in its own body.                                                         *)

\* str.endswith
endswith(s, suffix) ==
    /\ Len(s) >= Len(suffix)
    /\ SubSeq(s, Len(s) - Len(suffix) + 1, Len(s)) = suffix

xlsx == <<".", "x", "l", "s", "x">>

endpoint_relevant_cols ==
    <<"A08", "A13", "B3Ii", "U23", "C1_1a", "C1_2", "C1_4", "C1_6", "C1_9",
      "C1_15", "C1_17", "C1_19", "C1_25", "C1_35">>

endpoint_columns ==
    <<"area_type", "gender", "monthly_income", "monthly_expenditure",
      "save_bank", "save_mobile_money", "save_sacco", "save_friends", "save_digital",
      "loan_mobile", "loan_sacco", "loan_digital", "loan_family", "invest_forex">>

endpoint_behavior_cols ==
    <<"save_bank", "save_mobile_money", "save_sacco", "save_friends", "save_digital",
      "loan_mobile", "loan_sacco", "loan_digital", "loan_family", "invest_forex">>

\* usage_map.get(x, 0)
endpoint_usage_map(x) ==
    CASE x = "Never used" -> Num(0)
      [] x = "Used to use" -> Num(1)
      [] x = "Currently use" -> Num(2)
      [] OTHER -> Num(0)

\* Series.map({'Male': 0, 'Female': 1})
endpoint_gender_map(x) ==
    CASE x = "Male" -> Num(0)
      [] x = "Female" -> Num(1)
      [] OTHER -> NaN

\* Series.map({'Rural': 0, 'Urban': 1})
endpoint_area_map(x) ==
    CASE x = "Rural" -> Num(0)
      [] x = "Urban" -> Num(1)
      [] OTHER -> NaN

\* The rows of the conservative and of the balanced archetype exchanged.
endpoint_investment_rows_exchanged ==
    <<  <<Num(1), Num(1), Dec(5), Dec(5), Num(1), Num(1), Num(1), Num(1),
          Num(1), Num(1), Num(1), Num(1), Num(1), Num(0)>>,
        <<Num(1), Num(1), Dec(3), Dec(3), Num(2), Num(1), Num(2), Num(1),
          Num(0), Num(0), Num(0), Num(0), Num(0), Num(0)>>,
        <<Num(1), Num(1), Dec(6), Dec(6), Num(0), Num(2), Num(0), Num(0),
          Num(2), Num(2), Num(2), Num(2), Num(2), Num(2)>>  >>

endpoint_investment_rows ==
    <<  <<Num(1), Num(1), Dec(3), Dec(3), Num(2), Num(1), Num(2), Num(1),
          Num(0), Num(0), Num(0), Num(0), Num(0), Num(0)>>,
        <<Num(1), Num(1), Dec(5), Dec(5), Num(1), Num(1), Num(1), Num(1),
          Num(1), Num(1), Num(1), Num(1), Num(1), Num(0)>>,
        <<Num(1), Num(1), Dec(6), Dec(6), Num(0), Num(2), Num(0), Num(0),
          Num(2), Num(2), Num(2), Num(2), Num(2), Num(2)>>  >>

endpoint_index == <<"conservative", "balanced", "aggressive">>

\* DataFrame.to_dict(orient="records"): one dict per row, in row order, of
\* the frame's columns.
to_dict_records(fr) ==
    [i \in 1..Len(fr.data) |-> [c \in Range(fr.columns) |-> fr.data[i][c]]]

\* The handler ends with this response, after the build has computed the
\* similarities in computed (none, or those of one product).
Ended(reply, computed) == [response |-> reply, computed |-> computed]

\* The handler, from the file's name and the sheet read from its content, on
\* a build that has computed the products in done: the ways it may end.
recommend_investments(filename, sheet, done) ==
    IF ~endswith(filename, xlsx)
    THEN {Ended(HTTPException(400, "File must be an Excel .xlsx file"), {})}
    ELSE IF \E c \in Range(endpoint_relevant_cols) : c \notin Range(sheet.columns)
    THEN {Ended(Unhandled("KeyError"), {})}
    ELSE IF Len(sheet.data) = 0
    THEN {Ended(Unhandled("ValueError"), {})}
    ELSE
        LET selected ==
                Frame(endpoint_relevant_cols,
                      [i \in 1..Len(sheet.data) |->
                          [c \in Range(endpoint_relevant_cols) |-> sheet.data[i][c]]])
            renamed == Rename(selected, endpoint_columns)
            behavior ==
                MapCols(renamed, Range(endpoint_behavior_cols), endpoint_usage_map)
            gender == MapCols(behavior, {"gender"}, endpoint_gender_map)
            area == MapCols(gender, {"area_type"}, endpoint_area_map)
            income ==
                fillna(area, "monthly_income", median(area.data, "monthly_income"))
            subset ==
                fillna(income, "monthly_expenditure",
                       median(income.data, "monthly_expenditure"))
            fitted == Fit(StandardScaler, subset.data)
            households == Transform(fitted, subset.data)
            profiles ==
                [k \in 1..Len(endpoint_index) |->
                    [c \in Range(subset.columns) |->
                        endpoint_investment_rows[k][IndexOf(subset.columns, c)]]]
            scaled == Transform(fitted, profiles)
            labelled(similarity) ==
                Frame(Append(subset.columns, "investment_label"),
                      [i \in 1..Len(subset.data) |->
                          [c \in Range(subset.columns) \cup {"investment_label"} |->
                              IF c = "investment_label"
                              THEN nlargest1(similarity[i], endpoint_index)
                              ELSE subset.data[i][c]]])
        IN  IF HasNaN(households) \/ HasNaN(scaled)
            THEN {Ended(Unhandled("ValueError"), {})}
            ELSE {Ended(UploadResponse(200, "", "", to_dict_records(labelled(similarity))),
                         {[X |-> households, Y |-> scaled, sim |-> similarity]}) :
                     similarity \in cosine_similarity(households, scaled, done)}

\* The rows of an uploaded sheet.
MaxUploadRows == 2

\* The sheets uploaded: every sheet of at most MaxUploadRows rows with the
\* expected columns, and the sheets of at most one row with one expected
\* column absent or with one more column.
UploadSheets ==
    {Sheet(relevant_cols, b) : b \in Picks(MaxUploadRows, DOMAIN SurveyRows)}
    \cup {Sheet(Without(c), b) : c \in Range(relevant_cols), b \in Picks(1, DOMAIN SurveyRows)}
    \cup {Sheet(<<"HHID">> \o relevant_cols, b) : b \in Picks(1, DOMAIN SurveyRows)}

\* The names the file is uploaded under.
Filenames ==
    {<<"f", ".", "x", "l", "s", "x">>, <<".", "x", "l", "s", "x">>,
     <<"f", ".", "X", "L", "S", "X">>, <<"f", ".", "x", "l", "s">>,
     <<"x", "l", "s", "x">>, <<"f", ".", "x", "l", "s", "x", ".", "c", "s", "v">>}

----------------------------------------------------------------------------
(* The labeler and the endpoint on the same spreadsheet: the labeler is     *)
(* called on it, then the file is uploaded under some name.                 *)

InitUpload == \E s \in UploadSheets : InitWith(<<s>>)

\* POST /recommend with the file the labeler has just been called on.
RecommendInvestments ==
    /\ pc = "idle"
    /\ history # <<>>
    /\ upload = NoUpload
    /\ \E filename \in Filenames :
          LET sheet == history[Len(history)].sheet
          IN  \E ended \in recommend_investments(filename, sheet, rounded) :
                  /\ upload' = [filename |-> filename, sheet |-> sheet,
                                response |-> ended.response]
                  /\ rounded' = rounded \cup ended.computed
    /\ UNCHANGED <<pending, pc, locals, csv, returned, raised, history>>
    /\ UNCHANGED <<recommender, api, client, steps>>

NextUpload ==
    \/ Next
    \/ RecommendInvestments

SpecUpload == InitUpload /\ [][NextUpload]_vars

\* The file is uploaded under a name that ends in .xlsx.
Accepted == upload # NoUpload /\ endswith(upload.filename, xlsx)

\* C28: for a file whose name ends in .xlsx, the endpoint returns the records
\* of the very frame transform_finaccess_data returns for the same sheet: the
\* same rows in the same order, the same encoded values and the same
\* investment_label per row; when the labeler raises, the endpoint returns no
\* row and answers 500 after the same exception.
C28_EndpointLabelsAsLabeler ==
    Accepted =>
        /\ upload.sheet = history[Len(history)].sheet
        /\ IF raised = ""
           THEN /\ upload.response.status_code = 200
                /\ upload.response.records = to_dict_records(returned)
                /\ Len(upload.response.records) = Len(upload.sheet.data)
           ELSE /\ upload.response.status_code = 500
                /\ upload.response.raised = raised
                /\ upload.response.records = <<>>

\* Two households, the first of no known income, labelled differently by
\* the labeler and returned by the endpoint.
C28_Witness ==
    /\ Accepted
    /\ raised = ""
    /\ upload.response.status_code = 200
    /\ Len(upload.response.records) = 2
    /\ IsNaN(upload.sheet.data[1]["B3Ii"])
    /\ upload.response.records[1]["investment_label"]
          # upload.response.records[2]["investment_label"]
    /\ Labels(returned) = [i \in 1..2 |-> upload.response.records[i]["investment_label"]]

====
